---------------------------- MODULE Spec2Model ----------------------------
(***************************************************************************)
(* Model of the ingestion-to-filing pipeline of the librarian package:     *)
(* run_migration / process_file (pipeline.py), file_item (filer/filer.py), *)
(* copy_verify_remove (filer/transfer.py), ensure_unique_path              *)
(* (filer/naming.py) and the SQLAlchemy session of db/session.py           *)
(* (autocommit=False, autoflush=False).                                    *)
(*                                                                         *)
(* Spec    : migration runs over a small intake queue, with the tasks of a *)
(*           batch interleaving at their await points, I/O errors, and the *)
(*           process being killed at any step.                             *)
(* SpecCVR : copy_verify_remove called directly, again and again, on one   *)
(*           source/destination pair.                                      *)
(* SpecScan, SpecReview, SpecItem, SpecMerge, SpecEnrich, SpecUnique,      *)
(* SpecClass, SpecClassify, SpecCleanup, SpecCover : the scanner, the      *)
(*           review API and single functions of the filer, the enricher    *)
(*           and the classifier, each called on every input of a small set.*)
(***************************************************************************)
EXTENDS Integers, Sequences, FiniteSets, TLC

\* ------------------------------------------------------------ bounds
NumRecs == 2                 \* Intake Records in the queue
MaxRuns == 2                 \* invocations of `migrate run`
MaxCalls == 3                \* direct calls of copy_verify_remove (SpecCVR)
NumPaths == 3                \* files in the scanned source tree (SpecScan)
MaxItemCalls == 3            \* calls of _find_or_create_item (SpecItem)
MaxReqs == 1                 \* requests to the review API (SpecReview)
ScanBatchSizes == 1..2       \* batch_size arguments of scan_source_library
MaxNames == 101              \* names "stem.ext", "stem (2).ext", ... in the directory (SpecUnique)
MaxSubjectLen == 3            \* words and separators in a subject string (SpecClassify)
MaxClassCalls == 3           \* records filed with a classification (SpecClass)
NumFilings == 3              \* source files filed (SpecCover)
NumCoverItems == 2           \* the Items they resolve to (SpecCover)

\* ------------------------------------------------- program constants
ConfidenceThreshold == 80    \* settings.confidence_threshold (0.8), in hundredths
SafetyLimit == 100           \* ensure_unique_path's "Safety limit"

\* ------------------------------------------------------------ values
Recs == 1..NumRecs
Digests == {"d1", "d2"}      \* MD5 digests of complete payloads
NoFile == "absent"           \* no file at the path
Bad == "bad"                 \* a truncated or corrupted copy (no record's digest)
Content == Digests \cup {Bad}
NULL == "null"               \* Python None / SQL NULL
NoRec == 0                   \* no record, no task
NoId == 0                    \* a NULL id (ids start at 1)
NoCode == << >>              \* no classification code (None)
NoPath == << NULL, 0 >>      \* no path
ValueError == << "ValueError", 0 >>
IntegrityError == [ok |-> FALSE]
Titles == {"t1", "t2"}       \* resolved title: decides folder, file name and Item
Authors == {"a1"}
Status == {"pending", "processing", "migrated", "duplicate", "failed", "skipped"}
ExtractedKeys == {"title"}   \* the Scanner's extracted fields in the metadata bag
ReviewKeys == {"_enriched", "_classification"}

\* What enrichment returns for a record: the title resolved for it, and an author.
Enrichments(t) == [title : {t}, authors : { << a >> : a \in Authors }, isbn13 : {NULL}, isbn : {NULL}]

\* The characters of the strings the catalogue compares: titles and names.
Text ==
  [ s \in {"t1", "t2", "a1", "a", "A", "a ", "b", "_", "x", "X", ""} |->
      CASE s = "t1" -> << "t", "1" >>
        [] s = "t2" -> << "t", "2" >>
        [] s = "a1" -> << "a", "1" >>
        [] s = "a " -> << "a", " " >>
        [] s = ""   -> << >>
        [] OTHER    -> << s >> ]

\* The string with the given characters.
Str(q) == CHOOSE s \in DOMAIN Text : Text[s] = q

\* str.lower() and str.strip(), on the characters.
lower_char(c) == CASE c = "A" -> "a" [] c = "X" -> "x" [] OTHER -> c

lower(q) == [i \in DOMAIN q |-> lower_char(q[i])]

RECURSIVE lstrip(_)
lstrip(q) == IF q # << >> /\ Head(q) = " " THEN lstrip(Tail(q)) ELSE q

RECURSIVE rstrip(_)
rstrip(q) == IF q # << >> /\ q[Len(q)] = " " THEN rstrip(SubSeq(q, 1, Len(q) - 1)) ELSE q

strip(q) == rstrip(lstrip(q))

\* SQL `text ILIKE pattern`: the whole text must match the pattern, letters
\* case-insensitively, "_" in the pattern standing for any one character.
RECURSIVE ilike(_, _)
ilike(text, pattern) ==
  IF pattern = << >> THEN text = << >>
  ELSE /\ text # << >>
       /\ (Head(pattern) = "_" \/ lower_char(Head(pattern)) = lower_char(Head(text)))
       /\ ilike(Tail(text), Tail(pattern))

\* What classify() returns: (ddc, needs_review, confidence in hundredths).
Classifications ==
  { [ddc |-> NoCode, needs_review |-> TRUE,  confidence |-> 0],
    [ddc |-> << 0, 0, 7 >>, needs_review |-> FALSE, confidence |-> 60],
    [ddc |-> << 0, 0, 7 >>, needs_review |-> FALSE, confidence |-> 85] }

\* What shutil.copy2 can do: a faithful copy, a silently corrupted copy, an
\* OSError before the destination was created, an OSError after a partial write.
CopyOutcomes == {"ok", "corrupt", "oserror_nodest", "oserror_partial"}

VARIABLES
  checksum,      \* SourceFile.checksum_md5 of each Intake Record (set by the scan)
  title,         \* the title the record's metadata resolves to
  src,           \* the file at each record's source_path: a digest, or NoFile
  lib,           \* the canonical tree: library path -> content
  db,            \* the committed catalogue
  sess,          \* the session: the transaction's view of the catalogue
  pendingFiles,  \* File objects add()ed to the session and not yet flushed
  run,           \* run_migration's locals
  pc,            \* each process_file task's position
  tl,            \* each task's locals
  result,        \* what each task's process_file returned
  active,        \* the task that holds the event loop (NoRec: all suspended)
  runsLeft,      \* runs that may still be started
  lastEnd,       \* how the last run ended
  raised,        \* the record whose processing raised out of the last run
  inFlight,      \* the batch that was being processed when the process was last killed
  handed,        \* how often the run handed each record to process_file
  cvr,           \* SpecCVR: the state of a direct copy_verify_remove call
  cvrCalls,      \* SpecCVR: calls made so far
  tree,          \* SpecScan: the source tree, path -> the file found there
  manifest,      \* SpecScan: the committed source_files rows
  scan,          \* SpecScan: the locals of the running scanner function
  scanLog,       \* SpecScan: what the calls made so far did
  reqs,          \* SpecReview: review requests served so far
  itemLog,       \* SpecItem: the calls of _find_or_create_item made so far
  mergeLog,      \* SpecMerge: the arguments and the result of _merge_results
  enrichCall,    \* SpecEnrich: the state of a call of enrich_by_isbn / enrich_by_title_author
  uniqueCall,    \* SpecUnique: the directory, and what ensure_unique_path did there
  classLog,      \* SpecClass: the filings made so far with a classification
  classifyLog,   \* SpecClassify: the argument and the result of classify
  cleanup,       \* SpecCleanup: the intake tree, and the walk of cleanup_empty_parents
  covers         \* SpecCover: the Items' covers, and the filings that resolve to them

scanVars == << tree, manifest, scan, scanLog >>

lateVars == << covers >>

moreVars == << cleanup, lateVars >>

fnVars == << mergeLog, enrichCall, uniqueCall, classLog, classifyLog, moreVars >>

extVars == << scanVars, reqs, itemLog, fnVars >>

vars == << checksum, title, src, lib, db, sess, pendingFiles, run, pc, tl, result, active,
           runsLeft, lastEnd, raised, inFlight, handed, cvr, cvrCalls, extVars >>

pipeVars == << checksum, title, src, lib, db, sess, pendingFiles, run, pc, tl, result, active,
               runsLeft, lastEnd, raised, inFlight, handed >>

cvrVars == << cvr, cvrCalls >>

\* ------------------------------------------------------- file system
Exists(fs, p) == p \in DOMAIN fs

WriteFile(fs, p, c) == [q \in (DOMAIN fs) \cup {p} |-> IF q = p THEN c ELSE fs[q]]

Unlink(fs, p) == [q \in (DOMAIN fs) \ {p} |-> fs[q]]

\* calculate_md5: the digest of a file's bytes (a bad copy has no record's digest).
calculate_md5(c) == c

\* A library path is <<title, n>>: the canonical name of the title, with the
\* suffix " (n)" before the extension when n >= 2.
BasePath(t) == << t, 1 >>

\* Variant that takes the last free " (n)" rather than the first.
ensure_unique_path_last_free(path, fs) ==
  IF ~Exists(fs, path) THEN path
  ELSE LET free == { n \in 2..SafetyLimit : ~Exists(fs, << path[1], n >>) }
       IN  IF free = {} THEN ValueError
           ELSE << path[1], CHOOSE n \in free : \A m \in free : n >= m >>

\* ensure_unique_path: the path itself if free, else the first " (n)", n = 2, 3,
\* ... that is free; ValueError once the counter passes the safety limit.
ensure_unique_path(path, fs) ==
  IF ~Exists(fs, path) THEN path
  ELSE LET free == { n \in 2..SafetyLimit : ~Exists(fs, << path[1], n >>) }
       IN  IF free = {} THEN ValueError
           ELSE << path[1], CHOOSE n \in free : \A m \in free : n <= m >>


\* ------------------------------------------------- copy_verify_remove
\* A call's state: the source and destination files, the expected_checksum
\* argument (NULL: not passed), the step reached and the outcome ("True",
\* "False", or "OSError" for an exception raised to the caller).
CvrCall(s, d, e) == [src |-> s, dst |-> d, exp |-> e, phase |-> "begin", ret |-> "none"]

CvrReturn(c, r) == [c EXCEPT !.phase = "done", !.ret = r]

\* _remove_and_cleanup: unlink the source; an OSError (the source is already
\* gone) is logged and swallowed.
remove_and_cleanup(c) == [c EXCEPT !.src = NoFile]

\* Lines 50-69: compute the expected checksum when none was passed (reading a
\* missing source raises), then the destination-already-exists branch.
cvr_begin(c) ==
  IF c.exp = NULL /\ c.src = NoFile THEN CvrReturn(c, "OSError")
  ELSE LET expected == IF c.exp = NULL THEN calculate_md5(c.src) ELSE c.exp
           c1 == [c EXCEPT !.exp = expected]
       IN  IF c.dst # NoFile
           THEN IF calculate_md5(c.dst) = expected
                THEN [c1 EXCEPT !.phase = "remove"]
                ELSE CvrReturn(c1, "False")
           ELSE [c1 EXCEPT !.phase = "copy"]

\* Line 72: shutil.copy2(source, destination).
cvr_copy(c, o) ==
  IF c.src = NoFile THEN CvrReturn(c, "OSError")
  ELSE CASE o = "ok"              -> [c EXCEPT !.dst = c.src, !.phase = "verify"]
         [] o = "corrupt"         -> [c EXCEPT !.dst = Bad, !.phase = "verify"]
         [] o = "oserror_nodest"  -> CvrReturn(c, "OSError")
         [] o = "oserror_partial" -> CvrReturn([c EXCEPT !.dst = Bad], "OSError")

\* Variant of the verification that trusts the copy without recomputing its digest.
cvr_verify_unchecked(c) == [c EXCEPT !.phase = "remove"]

\* Lines 75-83: recompute the destination's digest; on a mismatch remove the bad copy.
cvr_verify(c) ==
  IF calculate_md5(c.dst) # c.exp
  THEN CvrReturn([c EXCEPT !.dst = NoFile], "False")
  ELSE [c EXCEPT !.phase = "remove"]

\* Lines 60-61 and 86-87: the source is removed and the call returns True.
cvr_remove(c) == CvrReturn(remove_and_cleanup(c), "True")

\* One step of copy_verify_remove; o is what shutil.copy2 does if this is the copy.
cvr_step(c, o) ==
  CASE c.phase = "begin"  -> cvr_begin(c)
    [] c.phase = "copy"   -> cvr_copy(c, o)
    [] c.phase = "verify" -> cvr_verify(c)
    [] c.phase = "remove" -> cvr_remove(c)

\* shutil.copy2 is consulted in the copy step only.
OutcomesAt(phase) == IF phase = "copy" THEN CopyOutcomes ELSE {"ok"}

\* ----------------------------------------------------------- catalogue
\* Classification codes are digit strings, here sequences of digits.
SeedClassifications ==
  { [code |-> << 0, 0, 0 >>, parent_code |-> NoCode],
    [code |-> << 0, 1, 0 >>, parent_code |-> << 0, 0, 0 >>] }

MaxId(rows) == IF rows = {} THEN 0 ELSE CHOOSE n \in { x.id : x \in rows } : \A x \in rows : x.id <= n

\* session.flush(): INSERT the pending File objects (ids from the sequence, in
\* the order added); the unique constraint on files.file_path raises.
Flush(s, pend) ==
  LET used == { f.file_path : f \in s.files }
      new  == { pend[k].file_path : k \in DOMAIN pend }
      base == MaxId(s.files)
  IN  IF (new \cap used # {}) \/ Cardinality(new) < Len(pend)
      THEN IntegrityError
      ELSE [ok |-> TRUE, s |-> [s EXCEPT !.files = @ \cup
              { [id |-> base + k, file_path |-> pend[k].file_path,
                 checksum_md5 |-> pend[k].checksum_md5, item_id |-> pend[k].item_id]
                : k \in DOMAIN pend }]]

zfill3(code) ==
  IF Len(code) >= 3 THEN code
  ELSE [i \in 1..3 |-> IF i <= 3 - Len(code) THEN 0 ELSE code[i - (3 - Len(code))]]

\* _ensure_classification_exists: create the missing node, its parent the
\* division X10 if that row exists, else the top-level X00.
ensure_classification_exists(s, ddc_code) ==
  IF ddc_code = NoCode \/ (\E k \in s.classes : k.code = ddc_code) THEN s
  ELSE LET code == zfill3(ddc_code)
           division == << code[1], 1, 0 >>
           parent == IF \E k \in s.classes : k.code = division
                     THEN division ELSE << code[1], 0, 0 >>
       IN  [s EXCEPT !.classes = @ \cup { [code |-> ddc_code, parent_code |-> parent] }]

\* _find_by_title_and_author: the Items the function can return (none: no
\* match). The candidates are the Items whose title ILIKEs the stripped,
\* lower-cased title; with authors, those whose first author is the record's
\* first author, compared stripped and lower-cased; without authors, the
\* candidate if it is the only one.
find_by_title_and_author(s, e) ==
  IF e.title = NULL \/ e.title = "" THEN {}
  ELSE LET normalised_title == lower(strip(Text[e.title]))
           candidates == { it \in s.items : ilike(Text[it.title], normalised_title) }
       IN  IF e.authors # << >>
           THEN LET first_author == lower(strip(Text[e.authors[1]]))
                IN  { it \in candidates :
                        /\ it.authors # << >>
                        /\ lower(strip(Text[it.authors[1]])) = first_author }
           ELSE IF Cardinality(candidates) = 1 THEN candidates ELSE {}

\* _find_or_create_creator: exact match on the stripped name, else a new Creator.
find_or_create_creator(s, name) == [s EXCEPT !.creators = @ \cup { Str(strip(Text[name])) }]

\* Lines 343-361: the authors of a new Item, stripped, each name once
\* (case-insensitively), in order.
RECURSIVE item_authors(_, _)
item_authors(authors, seen) ==
  IF authors = << >> THEN << >>
  ELSE LET normalised == strip(Text[Head(authors)])
       IN  IF lower(normalised) \in seen THEN item_authors(Tail(authors), seen)
           ELSE << Str(normalised) >> \o item_authors(Tail(authors), seen \cup { lower(normalised) })

RECURSIVE add_creators(_, _)
add_creators(s, names) ==
  IF names = << >> THEN s ELSE add_creators(find_or_create_creator(s, Head(names)), Tail(names))

\* The first row of a query without ORDER BY: here the row with the lowest id.
first(rows) == CHOOSE it \in rows : \A o \in rows : it.id <= o.id

\* Variant of the resolution that looks at the title before the ISBNs.
find_existing_title_first(s, e) ==
  LET byTitle == find_by_title_and_author(s, e)
      by13 == IF e.isbn13 # NULL THEN { it \in s.items : it.isbn13 = e.isbn13 } ELSE {}
      by10 == IF e.isbn # NULL THEN { it \in s.items : it.isbn = e.isbn } ELSE {}
  IN  IF byTitle # {} THEN byTitle ELSE IF by13 # {} THEN by13 ELSE by10

\* Lines 295-309: the Items the lookups find: by ISBN-13, else by ISBN-10,
\* else by title and first author.
find_existing(s, e) ==
  LET by13 == IF e.isbn13 # NULL THEN { it \in s.items : it.isbn13 = e.isbn13 } ELSE {}
      by10 == IF e.isbn # NULL THEN { it \in s.items : it.isbn = e.isbn } ELSE {}
  IN  IF by13 # {} THEN by13 ELSE IF by10 # {} THEN by10 ELSE find_by_title_and_author(s, e)

\* _find_or_create_item: ensure the Classification, return the matching Item
\* or add and flush a new one with its Creators. Yields << session, item id >>.
find_or_create_item(s, e, c) ==
  LET s1 == ensure_classification_exists(s, c.ddc)
      found == find_existing(s1, e)
  IN  IF found # {}
      THEN << s1, first(found).id >>
      ELSE LET id == MaxId(s1.items) + 1
               names == item_authors(e.authors, {})
               s2 == [s1 EXCEPT !.items = @ \cup
                        { [id |-> id, title |-> e.title, authors |-> names,
                           isbn13 |-> e.isbn13, isbn |-> e.isbn,
                           classification_code |-> c.ddc] }]
           IN  << add_creators(s2, names), id >>

\* The File rows file_item's duplicate check can see: flushed or committed rows
\* with the record's MD5 (the session does not autoflush before a query).
existing_files(s, md5) == { f \in s.files : f.checksum_md5 = md5 }

\* Variant of the gate that ignores the confidence threshold.
ShouldReview_flag_only(c) == c.needs_review

\* process_file's gate: queue for review instead of filing.
ShouldReview(c) == c.needs_review \/ c.confidence < ConfidenceThreshold

EmptyCatalogue ==
  [ status   |-> [r \in Recs |-> "pending"],
    file_id  |-> [r \in Recs |-> NoId],
    error    |-> [r \in Recs |-> NULL],
    meta     |-> [r \in Recs |-> ExtractedKeys],
    files    |-> {},
    items    |-> {},
    creators |-> {},
    classes  |-> SeedClassifications ]

\* --------------------------------------------------------- run_migration
Min(a, b) == IF a < b THEN a ELSE b

ById(S) ==
  CHOOSE q \in [1..Cardinality(S) -> S] : \A i, j \in 1..Cardinality(S) : i < j => q[i] < q[j]

\* Variant of the selection without the status filter.
pending_query_all(cat, limit) ==
  LET all == ById(Recs)
  IN  IF limit # 0 THEN SubSeq(all, 1, Min(limit, Len(all))) ELSE all

\* Lines 168-177: the pending Intake Records, ordered by id, cut to `limit`
\* when one is given (0: none).
pending_query(cat, limit) ==
  LET all == ById({ r \in Recs : cat.status[r] = "pending" })
  IN  IF limit # 0 THEN SubSeq(all, 1, Min(limit, Len(all))) ELSE all

\* Line 197: batch = pending_files[i:i + batch_size] (i counted from 1 here).
batch_slice(pending_files, i, batch_size) ==
  { pending_files[k] : k \in i..Min(i + batch_size - 1, Len(pending_files)) }

Batch == batch_slice(run.pending_files, run.i, run.batch_size)

Idle == [state |-> "idle", dry |-> FALSE, batch_size |-> 1, pending_files |-> << >>, i |-> 1]

NoCls == [ddc |-> NoCode, needs_review |-> FALSE, confidence |-> 100]

NoLocals == [title |-> NULL, tpath |-> NoPath, item |-> 0, cls |-> NoCls]

\* The process ends: the tasks and run_migration's locals are gone.
EndRun(how) ==
  /\ run' = Idle
  /\ lastEnd' = how
  /\ pc' = [r \in Recs |-> "idle"]
  /\ tl' = [r \in Recs |-> NoLocals]
  /\ result' = [r \in Recs |-> "none"]
  /\ handed' = [r \in Recs |-> 0]
  /\ active' = NoRec

\* _process_batch: one process_file task per record of the batch, all waiting
\* on their enrichment lookups.
StartTasks(b) ==
  /\ pc' = [r \in Recs |-> IF r \in b THEN "enrich" ELSE "idle"]
  /\ handed' = [r \in Recs |-> IF r \in b THEN handed[r] + 1 ELSE handed[r]]
  /\ active' = NoRec

\* `migrate run`: open a session, select the pending records, start the first batch.
StartRun(dry, batch_size, limit) ==
  /\ run.state = "idle"
  /\ runsLeft > 0
  /\ runsLeft' = runsLeft - 1
  /\ LET sel == pending_query(db, limit)
     IN  /\ sess' = db
         /\ pendingFiles' = << >>
         /\ raised' = NoRec
         /\ IF sel = << >>
            THEN EndRun("completed")
            ELSE /\ run' = [state |-> "running", dry |-> dry, batch_size |-> batch_size,
                            pending_files |-> sel, i |-> 1]
                 /\ lastEnd' = "none"
                 /\ tl' = [r \in Recs |-> NoLocals]
                 /\ result' = [r \in Recs |-> "none"]
                 /\ pc' = [r \in Recs |->
                             IF r \in batch_slice(sel, 1, batch_size) THEN "enrich" ELSE "idle"]
                 /\ handed' = [r \in Recs |->
                             IF r \in batch_slice(sel, 1, batch_size) THEN 1 ELSE 0]
                 /\ active' = NoRec
  /\ UNCHANGED << checksum, title, src, lib, db, inFlight, cvrVars, extVars >>

\* An exception leaves process_file or the commit: gather re-raises it,
\* asyncio.run cancels the other tasks and get_session rolls back.
Abort(who) ==
  /\ sess' = db
  /\ pendingFiles' = << >>
  /\ EndRun("aborted")
  /\ raised' = who

Resumable(r) == run.state = "running" /\ pc[r] = "enrich" /\ active = NoRec

\* process_file lines 113-130: the record is queued for review.
TaskReview(r) ==
  /\ Resumable(r)
  /\ \E e \in Enrichments(title[r]), c \in Classifications :
       /\ ShouldReview(c)
       /\ sess' = [sess EXCEPT !.status[r] = "pending", !.meta[r] = @ \cup ReviewKeys]
       /\ tl' = [tl EXCEPT ![r] = [NoLocals EXCEPT !.title = e.title, !.cls = c]]
  /\ result' = [result EXCEPT ![r] = "needs_review"]
  /\ pc' = [pc EXCEPT ![r] = "done"]
  /\ UNCHANGED << checksum, title, src, lib, db, pendingFiles, run, active, runsLeft, lastEnd,
                  raised, inFlight, handed, cvrVars, extVars >>

\* file_item lines 95-114: a File with the record's MD5 is in the catalogue.
TaskDuplicate(r) ==
  /\ Resumable(r)
  /\ \E e \in Enrichments(title[r]), c \in Classifications :
       /\ ~ShouldReview(c)
       /\ tl' = [tl EXCEPT ![r] = [NoLocals EXCEPT !.title = e.title, !.cls = c]]
  /\ \E f \in existing_files(sess, checksum[r]) :
       sess' = [sess EXCEPT !.status[r] = "duplicate", !.file_id[r] = f.id]
  /\ src' = IF run.dry THEN src ELSE [src EXCEPT ![r] = NoFile]
  /\ result' = [result EXCEPT ![r] = "migrated"]
  /\ pc' = [pc EXCEPT ![r] = "done"]
  /\ UNCHANGED << checksum, title, lib, db, pendingFiles, run, active, runsLeft, lastEnd,
                  raised, inFlight, handed, cvrVars, extVars >>

\* file_item lines 116-151: choose the target path, make the item folder,
\* find or create the Item and flush; a dry run stops here, a real one goes on
\* to the cover (wait: the task is suspended on the cover download) and the move.
TaskFile(r) ==
  /\ Resumable(r)
  /\ existing_files(sess, checksum[r]) = {}
  /\ \E e \in Enrichments(title[r]), c \in Classifications, wait \in BOOLEAN :
       LET tp == ensure_unique_path(BasePath(e.title), lib)
           fi == find_or_create_item(sess, e, c)
           fl == Flush(fi[1], pendingFiles)
       IN  /\ ~ShouldReview(c)
           /\ tp # ValueError
           /\ fl.ok
           /\ run.dry => ~wait
           /\ sess' = fl.s
           /\ pendingFiles' = << >>
           /\ tl' = [tl EXCEPT ![r] = [title |-> e.title, tpath |-> tp, item |-> fi[2], cls |-> c]]
           /\ result' = [result EXCEPT ![r] = IF run.dry THEN "migrated" ELSE "none"]
           /\ pc' = [pc EXCEPT ![r] = IF run.dry THEN "done" ELSE IF wait THEN "cover" ELSE "begin"]
           /\ active' = IF run.dry \/ wait THEN NoRec ELSE r
  /\ UNCHANGED << checksum, title, src, lib, db, run, runsLeft, lastEnd, raised, inFlight, handed,
                  cvrVars, extVars >>

\* file_item lines 116-137 raising: ValueError from ensure_unique_path, OSError
\* from mkdir (permission denied, disk full), IntegrityError from a flush.
\* Nothing in process_file or run_migration catches them.
TaskRaise(r) ==
  /\ Resumable(r)
  /\ existing_files(sess, checksum[r]) = {}
  /\ \E e \in Enrichments(title[r]), c \in Classifications, mkdir \in {"ok", "OSError"} :
       LET tp == ensure_unique_path(BasePath(e.title), lib)
           fl == Flush(find_or_create_item(sess, e, c)[1], pendingFiles)
       IN  /\ ~ShouldReview(c)
           /\ (tp = ValueError) \/ (~run.dry /\ mkdir = "OSError") \/ ~fl.ok
  /\ Abort(r)
  /\ UNCHANGED << checksum, title, src, lib, db, runsLeft, inFlight, cvrVars, extVars >>

\* The cover download returns; the cover is written and the task goes on.
TaskCover(r) ==
  /\ run.state = "running"
  /\ pc[r] = "cover"
  /\ active = NoRec
  /\ pc' = [pc EXCEPT ![r] = "begin"]
  /\ active' = r
  /\ UNCHANGED << checksum, title, src, lib, db, sess, pendingFiles, run, tl, result, runsLeft,
                  lastEnd, raised, inFlight, handed, cvrVars, extVars >>

FileAt(fs, p) == IF Exists(fs, p) THEN fs[p] ELSE NoFile

PutFile(fs, p, c) == IF c = NoFile THEN Unlink(fs, p) ELSE WriteFile(fs, p, c)

\* file_item lines 161-170 and 176-193, given what copy_verify_remove did:
\* the session's rows and the pending File objects afterwards.
after_move(s, pend, r, ret, t) ==
  CASE ret = "True" ->
         << [s EXCEPT !.status[r] = "migrated", !.file_id[r] = NoId],
            Append(pend, [file_path |-> t.tpath, checksum_md5 |-> checksum[r],
                          item_id |-> t.item]) >>
    [] ret = "False" ->
         << [s EXCEPT !.status[r] = "failed", !.error[r] = "Copy verification failed"], pend >>
    [] ret = "OSError" ->
         << [s EXCEPT !.status[r] = "failed", !.error[r] = "Copy failed"], pend >>

move_result(ret) == IF ret = "True" THEN "migrated" ELSE "failed"

\* file_item lines 153-195: one step of copy_verify_remove on the record's
\* source and target; when it returns, the File is recorded or the record fails.
TaskMove(r) ==
  /\ run.state = "running"
  /\ active = r
  /\ pc[r] \in {"begin", "copy", "verify", "remove"}
  /\ \E o \in OutcomesAt(pc[r]) :
       LET c0 == [CvrCall(src[r], FileAt(lib, tl[r].tpath), checksum[r]) EXCEPT !.phase = pc[r]]
           c  == cvr_step(c0, o)
           am == after_move(sess, pendingFiles, r, c.ret, tl[r])
       IN  /\ src' = [src EXCEPT ![r] = c.src]
           /\ lib' = PutFile(lib, tl[r].tpath, c.dst)
           /\ IF c.phase = "done"
              THEN /\ sess' = am[1]
                   /\ pendingFiles' = am[2]
                   /\ result' = [result EXCEPT ![r] = move_result(c.ret)]
                   /\ pc' = [pc EXCEPT ![r] = "done"]
                   /\ active' = NoRec
              ELSE /\ pc' = [pc EXCEPT ![r] = c.phase]
                   /\ UNCHANGED << sess, pendingFiles, result, active >>
  /\ UNCHANGED << checksum, title, db, run, tl, runsLeft, lastEnd, raised, inFlight, handed,
                  cvrVars, extVars >>

BatchDone == run.state = "running" /\ \A r \in Batch : pc[r] = "done"

MoreBatches == run.i + run.batch_size <= Len(run.pending_files)

\* Lines 172-211: ProcessingStats as run_migration has it once the results in
\* res are those of all the selected records: total is the number selected,
\* and each result adds one to processed and to one of the four counters.
ProcessingStats(sel, res) ==
  LET with(S) == Cardinality({ k \in DOMAIN sel : res[sel[k]] \in S })
  IN  [total |-> Len(sel),
       processed |-> with({"migrated", "needs_review", "failed", "skipped"}),
       migrated |-> with({"migrated"}),
       needs_review |-> with({"needs_review"}),
       failed |-> with({"failed"}),
       skipped |-> with({"skipped"})]

\* Lines 215-217: session.commit() after the batch unless this is a dry run.
batch_commit(dry, s, pend) == IF dry THEN [ok |-> TRUE, s |-> s] ELSE Flush(s, pend)

\* Lines 196-217: the batch's results are in; commit, then the next batch.
NextBatch ==
  /\ BatchDone
  /\ MoreBatches
  /\ LET c == batch_commit(run.dry, sess, pendingFiles)
     IN  /\ c.ok
         /\ sess' = c.s
         /\ db' = IF run.dry THEN db ELSE c.s
         /\ pendingFiles' = IF run.dry THEN pendingFiles ELSE << >>
  /\ run' = [run EXCEPT !.i = @ + run.batch_size]
  /\ StartTasks(batch_slice(run.pending_files, run.i + run.batch_size, run.batch_size))
  /\ UNCHANGED << checksum, title, src, lib, tl, result, runsLeft, lastEnd, raised, inFlight,
                  cvrVars, extVars >>

\* Lines 215-219 and get_session: the last batch's commit, run_migration
\* returns, and get_session commits and closes the session.
FinishRun ==
  /\ BatchDone
  /\ ~MoreBatches
  /\ LET c == Flush(sess, pendingFiles)
     IN  /\ c.ok
         /\ sess' = c.s
         /\ db' = c.s
         /\ pendingFiles' = << >>
  /\ EndRun("completed")
  /\ UNCHANGED << checksum, title, src, lib, runsLeft, raised, inFlight,
                  cvrVars, extVars >>

\* The batch's commit raises (two File objects with one file_path).
CommitRaise ==
  /\ BatchDone
  /\ ~run.dry
  /\ ~Flush(sess, pendingFiles).ok
  /\ Abort(NoRec)
  /\ UNCHANGED << checksum, title, src, lib, db, runsLeft, inFlight, cvrVars, extVars >>

\* The process is killed or stopped inside a batch: nothing uncommitted survives.
Crash ==
  /\ run.state = "running"
  /\ inFlight' = Batch
  /\ sess' = db
  /\ pendingFiles' = << >>
  /\ EndRun("crashed")
  /\ UNCHANGED << checksum, title, src, lib, db, runsLeft, raised, cvrVars, extVars >>

\* ------------------------------------------------ direct calls (SpecCVR)
\* cvr.arg is the expected_checksum argument of every call; cvr.src0, cvr.dst0
\* are the files when the current call began, cvr.prev what the previous call
\* returned, cvr.payload the digest of the payload being moved.
CvrNewCall ==
  /\ cvr.call.phase = "done"
  /\ cvrCalls < MaxCalls
  /\ cvrCalls' = cvrCalls + 1
  /\ cvr' = [cvr EXCEPT !.call = CvrCall(cvr.call.src, cvr.call.dst, cvr.arg),
                        !.src0 = cvr.call.src, !.dst0 = cvr.call.dst,
                        !.prev = cvr.call.ret]
  /\ UNCHANGED << pipeVars, extVars >>

CvrStep ==
  /\ cvr.call.phase # "done"
  /\ \E o \in OutcomesAt(cvr.call.phase) :
       cvr' = [cvr EXCEPT !.call = cvr_step(cvr.call, o)]
  /\ UNCHANGED << cvrCalls, pipeVars, extVars >>

\* ---------------------------------------------------------- review API
\* web/api/review.py: requests served by their own session while no migration
\* run is in progress.

\* copy_verify_remove run from its first line to its return.
cvr_all(c, o) ==
  LET s1 == cvr_begin(c)
      s2 == IF s1.phase = "copy" THEN cvr_copy(s1, o) ELSE s1
      s3 == IF s2.phase = "verify" THEN cvr_verify(s2) ELSE s2
  IN  IF s3.phase = "remove" THEN cvr_remove(s3) ELSE s3

\* Lines 714-716: the reviewer's decision overrides the gate.
Forced(c) == [c EXCEPT !.confidence = 100, !.needs_review = FALSE]

\* POST /{id}/skip: the status is set to the requested one, whatever it was.
SkipSourceFile(r, status) ==
  /\ run.state = "idle"
  /\ reqs < MaxReqs
  /\ reqs' = reqs + 1
  /\ status \in {"skipped", "duplicate"}
  /\ db' = [db EXCEPT !.status[r] = status]
  /\ sess' = [sess EXCEPT !.status[r] = status]
  /\ UNCHANGED << checksum, title, src, lib, pendingFiles, run, pc, tl, result, active,
                  runsLeft, lastEnd, raised, inFlight, handed, cvrVars, scanVars, itemLog, fnVars >>

\* POST /{id}/file: a pending record is filed by file_item with the forced
\* classification and committed; when file_item fails or raises nothing is
\* committed (the session is rolled back or closed).
FileSourceFile(r) ==
  /\ run.state = "idle"
  /\ reqs < MaxReqs
  /\ reqs' = reqs + 1
  /\ db.status[r] = "pending"
  /\ \E e \in Enrichments(title[r]), c0 \in Classifications, o \in CopyOutcomes,
        mkdir \in {"ok", "OSError"} :
       LET c  == Forced(c0)
           tp == ensure_unique_path(BasePath(e.title), lib)
           fi == find_or_create_item(db, e, c)
           mv == cvr_all(CvrCall(src[r], FileAt(lib, tp), checksum[r]), o)
           am == after_move(fi[1], << >>, r, mv.ret, [NoLocals EXCEPT !.tpath = tp, !.item = fi[2]])
           fl == Flush(am[1], am[2])
       IN  IF existing_files(db, checksum[r]) # {}
           THEN /\ \E f \in existing_files(db, checksum[r]) :
                     db' = [db EXCEPT !.status[r] = "duplicate", !.file_id[r] = f.id]
                /\ src' = [src EXCEPT ![r] = NoFile]
                /\ lib' = lib
           ELSE IF tp = ValueError \/ mkdir = "OSError"
           THEN UNCHANGED << db, src, lib >>
           ELSE /\ src' = [src EXCEPT ![r] = mv.src]
                /\ lib' = PutFile(lib, tp, mv.dst)
                /\ db' = IF mv.ret = "True" /\ fl.ok THEN fl.s ELSE db
  /\ sess' = db'
  /\ UNCHANGED << checksum, title, pendingFiles, run, pc, tl, result, active,
                  runsLeft, lastEnd, raised, inFlight, handed, cvrVars, scanVars, itemLog, fnVars >>

\* ------------------------------------------------------- Item resolution
\* _find_or_create_item called for one record after another on the catalogue.

\* The metadata a record can arrive with.
ItemInputs ==
  [title : {"a", "A", "a ", "_"}, authors : {<< >>, << "x" >>, << "X" >>},
   isbn13 : {NULL, "i1"}, isbn : {NULL, "j1"}]

NoInput == [title |-> NULL, authors |-> << >>, isbn13 |-> NULL, isbn |-> NULL]

NoItemLog == [calls |-> 0, e |-> NoInput, prev |-> NoInput, id |-> NoId,
              created |-> FALSE, before |-> {}]

\* One call, flushed and committed.
FindOrCreateItem(e) ==
  /\ itemLog.calls < MaxItemCalls
  /\ LET fi == find_or_create_item(db, e, NoCls)
     IN  /\ db' = fi[1]
         /\ sess' = fi[1]
         /\ itemLog' = [calls |-> itemLog.calls + 1, e |-> e, prev |-> itemLog.e, id |-> fi[2],
                        created |-> fi[1].items # db.items, before |-> db.items]
  /\ UNCHANGED << checksum, title, src, lib, pendingFiles, run, pc, tl, result, active,
                  runsLeft, lastEnd, raised, inFlight, handed, cvrVars, scanVars, reqs, fnVars >>

\* ------------------------------------------------------------- scanner
\* scan_source_library and identify_duplicates (inspector/scanner.py), called
\* in any order on one unchanged source tree, and killed at any step.
Paths == 1..NumPaths

\* The files a path of the tree can hold: digest, format, how many of title and
\* authors the extracted metadata has, length of the file name, and whether
\* scan_file can read it (else it returns None).
FileKinds ==
  { [md5 |-> "d1", format |-> "epub", meta |-> 2, namelen |-> 9, ok |-> TRUE],
    [md5 |-> "d1", format |-> "pdf",  meta |-> 2, namelen |-> 9, ok |-> TRUE],
    [md5 |-> "d1", format |-> "epub", meta |-> 2, namelen |-> 5, ok |-> TRUE],
    [md5 |-> "d2", format |-> "mobi", meta |-> 1, namelen |-> 5, ok |-> TRUE],
    [md5 |-> "d1", format |-> "epub", meta |-> 1, namelen |-> 5, ok |-> TRUE],
    [md5 |-> "d1", format |-> "epub", meta |-> 2, namelen |-> 5, ok |-> FALSE] }

\* Line 102: all_files = list(find_library_files(source_root)).
find_library_files == [k \in Paths |-> k]

\* Lines 124-126: the row already recorded for the path, if any.
existing_rows(rows, path) == { f \in rows : f.source_path = path }

\* Lines 139-164: the SourceFile built from a scanned file (id given on insert).
NewSourceFile(path) ==
  [id |-> NoId, source_path |-> path, checksum_md5 |-> tree[path].md5,
   format |-> tree[path].format, meta |-> tree[path].meta,
   namelen |-> tree[path].namelen, status |-> "pending", duplicate_of_id |-> NoId]

\* session.add_all(batch); session.commit(): ids in insertion order. The
\* unique constraint on source_path refuses a path that is already recorded.
InsertBatch(rows, batch) ==
  IF \/ \E k \in DOMAIN batch : existing_rows(rows, batch[k].source_path) # {}
     \/ \E j, k \in DOMAIN batch : j # k /\ batch[j].source_path = batch[k].source_path
  THEN [ok |-> FALSE, rows |-> rows]
  ELSE [ok |-> TRUE,
        rows |-> rows \cup { [batch[k] EXCEPT !.id = MaxId(rows) + k] : k \in DOMAIN batch }]

\* _select_best_copy's score: (has_title + has_authors, format_score, -len(filename)).
format_score(fmt) ==
  CASE fmt = "epub" -> 3 [] fmt = "pdf" -> 2 [] fmt = "mobi" -> 1 [] OTHER -> 0

\* The score with the format ahead of the metadata.
score_format_first(f) == << format_score(f.format), f.meta, 0 - f.namelen >>

score(f) == << f.meta, format_score(f.format), 0 - f.namelen >>

\* Python's ordering of tuples.
TupleLess(a, b) ==
  \E i \in 1..Len(a) : a[i] < b[i] /\ \A j \in 1..(i - 1) : a[j] = b[j]

\* max(files, key=score): the first element no other element beats.
select_best_copy(files) ==
  LET best == { i \in DOMAIN files : \A j \in DOMAIN files : ~TupleLess(score(files[i]), score(files[j])) }
  IN  files[CHOOSE i \in best : \A j \in best : i <= j]

\* The rows of a set as a list ordered by id.
RowsById(S) ==
  LET ids == ById({ f.id : f \in S })
  IN  [k \in 1..Len(ids) |-> CHOOSE f \in S : f.id = ids[k]]

\* Lines 193-202: the checksums that more than one pending row has.
duplicate_checksums(rows) ==
  { d \in Digests : Cardinality({ f \in rows : f.status = "pending" /\ f.checksum_md5 = d }) > 1 }

\* Variant of the group query without the status filter.
group_files_any_status(rows, d) == RowsById({ f \in rows : f.checksum_md5 = d })

\* Lines 211-220: the pending rows with the checksum, ordered by id.
group_files(rows, d) ==
  RowsById({ f \in rows : f.checksum_md5 = d /\ f.status = "pending" })

\* Lines 222-232: keep the best copy of the group, mark the others.
mark_group(rows, d) ==
  LET files == group_files(rows, d)
  IN  IF Len(files) <= 1 THEN rows
      ELSE LET primary == select_best_copy(files)
               others == { files[k] : k \in DOMAIN files } \ { primary }
           IN  (rows \ others) \cup
               { [f EXCEPT !.status = "duplicate", !.duplicate_of_id = primary.id] : f \in others }

ScanLocals ==
  [state |-> "idle", all_files |-> << >>, k |-> 1, batch |-> << >>, batch_size |-> 1,
   new_files |-> 0, todo |-> {}, groups |-> 0, settled |-> FALSE, before |-> {}]

NoLog == [scanned |-> FALSE, settled |-> FALSE, last |-> "none", new_files |-> 0,
          groups |-> 0, marked |-> 0, settledAtCall |-> FALSE, before |-> {}]

\* Variant of the already-scanned test that never finds the path.
already_scanned_never(rows, path) == FALSE

\* Line 128: `if existing`.
already_scanned(rows, path) == existing_rows(rows, path) # {}

\* What the scanner leaves alone.
notScan == << pipeVars, cvrVars, reqs, itemLog, fnVars >>

\* Lines 100-108: scan_source_library is called.
ScanBegin(batch_size) ==
  /\ scan.state = "idle"
  /\ scan' = [ScanLocals EXCEPT !.state = "scan", !.all_files = find_library_files,
                                !.batch_size = batch_size, !.settled = scanLog.settled,
                                !.before = manifest]
  /\ UNCHANGED << tree, manifest, scanLog >>
  /\ UNCHANGED notScan

\* Uniform record of a call that ended.
Logged(how, new, groups, marked, before) ==
  [scanned |-> scanLog.scanned \/ how = "scan",
   settled |-> scanLog.settled \/ (how = "dedup" /\ scanLog.scanned),
   last |-> how, new_files |-> new, groups |-> groups, marked |-> marked,
   settledAtCall |-> scan.settled, before |-> before]

\* Lines 120-172: one iteration of the loop over all_files.
ScanFile ==
  /\ scan.state = "scan"
  /\ scan.k <= Len(scan.all_files)
  /\ LET path == scan.all_files[scan.k]
     IN  IF already_scanned(manifest, path) \/ ~tree[path].ok
         THEN /\ scan' = [scan EXCEPT !.k = @ + 1]
              /\ UNCHANGED << manifest, scanLog >>
         ELSE LET batch == Append(scan.batch, NewSourceFile(path))
              IN  IF Len(batch) >= scan.batch_size
                  THEN LET ins == InsertBatch(manifest, batch)
                       IN  IF ins.ok
                           THEN /\ manifest' = ins.rows
                                /\ scan' = [scan EXCEPT !.k = @ + 1, !.batch = << >>,
                                                        !.new_files = @ + 1]
                                /\ UNCHANGED scanLog
                           ELSE /\ scanLog' = Logged("error", scan.new_files + 1, 0, 0, {})
                                /\ scan' = ScanLocals
                                /\ UNCHANGED manifest
                  ELSE /\ scan' = [scan EXCEPT !.k = @ + 1, !.batch = batch,
                                               !.new_files = @ + 1]
                       /\ UNCHANGED << manifest, scanLog >>
  /\ UNCHANGED tree
  /\ UNCHANGED notScan

\* Lines 174-179: commit the remaining rows and return the counts.
ScanEnd ==
  /\ scan.state = "scan"
  /\ scan.k > Len(scan.all_files)
  /\ LET ins == InsertBatch(manifest, scan.batch)
     IN  /\ manifest' = ins.rows
         /\ scanLog' = Logged(IF ins.ok THEN "scan" ELSE "error", scan.new_files, 0, 0,
                              scan.before)
  /\ scan' = ScanLocals
  /\ UNCHANGED tree
  /\ UNCHANGED notScan

\* Lines 192-206: identify_duplicates is called and finds the checksums to treat.
DedupBegin ==
  /\ scan.state = "idle"
  /\ scan' = [ScanLocals EXCEPT !.state = "dedup", !.todo = duplicate_checksums(manifest),
                                !.groups = Cardinality(duplicate_checksums(manifest)),
                                !.settled = scanLog.settled, !.before = manifest]
  /\ UNCHANGED << tree, manifest, scanLog >>
  /\ UNCHANGED notScan

\* Lines 209-235: one checksum's group is treated and committed.
DedupGroup ==
  /\ scan.state = "dedup"
  /\ \E d \in scan.todo :
       /\ manifest' = mark_group(manifest, d)
       /\ scan' = [scan EXCEPT !.todo = @ \ {d}]
  /\ UNCHANGED << tree, scanLog >>
  /\ UNCHANGED notScan

\* Lines 237-238: identify_duplicates returns the number of rows it marked.
DedupEnd ==
  /\ scan.state = "dedup"
  /\ scan.todo = {}
  /\ scanLog' = Logged("dedup", 0, scan.groups,
                       Cardinality({ f \in manifest : f \notin scan.before }), scan.before)
  /\ scan' = ScanLocals
  /\ UNCHANGED << tree, manifest >>
  /\ UNCHANGED notScan

\* The process is killed inside a call: the rows not yet committed are lost.
ScanKill ==
  /\ scan.state # "idle"
  /\ scanLog' = Logged("killed", 0, 0, 0, {})
  /\ scan' = ScanLocals
  /\ UNCHANGED << tree, manifest >>
  /\ UNCHANGED notScan

\* ---------------------------------------------------------- enrichment
\* enricher/enricher.py: what each source returned for a book, and the merge.
\* A source that returned None is the record with found = FALSE.  The values
\* name the source they come from, so that the merged record shows its origin.

\* Python truthiness of an optional string.
truthy(v) == v # NULL /\ v # ""

OCLCResults ==
  [found : {TRUE}, ddc : {NULL, "004"}, title : {NULL, "oclc"},
   authors : {<< >>, << "oclc" >>}]
    \cup {[found |-> FALSE, ddc |-> NULL, title |-> NULL, authors |-> << >>]}

OpenLibraryResults ==
  [found : {TRUE}, ddc : {<< >>, << "510", "511" >>}, title : {NULL, "", "openlibrary"},
   authors : {<< >>, << "openlibrary" >>}, description : {NULL, "openlibrary"}]
    \cup {[found |-> FALSE, ddc |-> << >>, title |-> NULL, authors |-> << >>,
           description |-> NULL]}

GoogleBooksResults ==
  [found : {TRUE}, title : {NULL, "google_books"}, authors : {<< >>, << "google_books" >>},
   description : {NULL, "google_books"}]
    \cup {[found |-> FALSE, title |-> NULL, authors |-> << >>, description |-> NULL]}

LibraryThingResults ==
  [found : {TRUE}, title : {NULL, "librarything"}, authors : {<< >>, << "librarything" >>},
   series : {NULL, "librarything"}]
    \cup {[found |-> FALSE, title |-> NULL, authors |-> << >>, series |-> NULL]}

CalibreBooks ==
  [found : {TRUE}, title : {NULL, "calibre"}, authors : {<< >>, << "calibre" >>},
   description : {NULL}, series : {NULL, "calibre"}]
    \cup {[found |-> TRUE, title |-> "calibre", authors |-> << >>,
           description |-> "calibre", series |-> NULL],
          [found |-> FALSE, title |-> NULL, authors |-> << >>, description |-> NULL,
           series |-> NULL]}

\* EnrichedMetadata(): the fields the merge fills, at their defaults.
EnrichedMetadata ==
  [ddc |-> NULL, title |-> NULL, authors |-> << >>, description |-> NULL, series |-> NULL]

\* _merge_results with Google Books ahead of Open Library for the title.
merge_results_google_first(oclc, ol, google, lt, calibre) ==
  [ddc |-> IF oclc.found /\ truthy(oclc.ddc) THEN oclc.ddc
           ELSE IF ol.found /\ ol.ddc # << >> THEN ol.ddc[1]
           ELSE EnrichedMetadata.ddc,
   title |-> IF google.found /\ truthy(google.title) THEN google.title
             ELSE IF ol.found /\ truthy(ol.title) THEN ol.title
             ELSE IF oclc.found /\ truthy(oclc.title) THEN oclc.title
             ELSE IF lt.found /\ truthy(lt.title) THEN lt.title
             ELSE IF calibre.found /\ truthy(calibre.title) THEN calibre.title
             ELSE EnrichedMetadata.title,
   authors |-> IF ol.found /\ ol.authors # << >> THEN ol.authors
               ELSE IF google.found /\ google.authors # << >> THEN google.authors
               ELSE IF oclc.found /\ oclc.authors # << >> THEN oclc.authors
               ELSE IF lt.found /\ lt.authors # << >> THEN lt.authors
               ELSE IF calibre.found /\ calibre.authors # << >> THEN calibre.authors
               ELSE EnrichedMetadata.authors,
   description |-> IF google.found /\ truthy(google.description) THEN google.description
                   ELSE IF ol.found /\ truthy(ol.description) THEN ol.description
                   ELSE IF calibre.found /\ truthy(calibre.description)
                        THEN calibre.description
                   ELSE EnrichedMetadata.description,
   series |-> IF lt.found /\ truthy(lt.series) THEN lt.series
              ELSE IF calibre.found /\ truthy(calibre.series) THEN calibre.series
              ELSE EnrichedMetadata.series]

\* _merge_results: one if/elif chain per field.
merge_results(oclc, ol, google, lt, calibre) ==
  [ddc |-> IF oclc.found /\ truthy(oclc.ddc) THEN oclc.ddc
           ELSE IF ol.found /\ ol.ddc # << >> THEN ol.ddc[1]
           ELSE EnrichedMetadata.ddc,
   title |-> IF ol.found /\ truthy(ol.title) THEN ol.title
             ELSE IF google.found /\ truthy(google.title) THEN google.title
             ELSE IF oclc.found /\ truthy(oclc.title) THEN oclc.title
             ELSE IF lt.found /\ truthy(lt.title) THEN lt.title
             ELSE IF calibre.found /\ truthy(calibre.title) THEN calibre.title
             ELSE EnrichedMetadata.title,
   authors |-> IF ol.found /\ ol.authors # << >> THEN ol.authors
               ELSE IF google.found /\ google.authors # << >> THEN google.authors
               ELSE IF oclc.found /\ oclc.authors # << >> THEN oclc.authors
               ELSE IF lt.found /\ lt.authors # << >> THEN lt.authors
               ELSE IF calibre.found /\ calibre.authors # << >> THEN calibre.authors
               ELSE EnrichedMetadata.authors,
   description |-> IF google.found /\ truthy(google.description) THEN google.description
                   ELSE IF ol.found /\ truthy(ol.description) THEN ol.description
                   ELSE IF calibre.found /\ truthy(calibre.description)
                        THEN calibre.description
                   ELSE EnrichedMetadata.description,
   series |-> IF lt.found /\ truthy(lt.series) THEN lt.series
              ELSE IF calibre.found /\ truthy(calibre.series) THEN calibre.series
              ELSE EnrichedMetadata.series]

NoMerge ==
  [done |-> FALSE,
   oclc |-> CHOOSE r \in OCLCResults : ~r.found,
   ol |-> CHOOSE r \in OpenLibraryResults : ~r.found,
   google |-> CHOOSE r \in GoogleBooksResults : ~r.found,
   lt |-> CHOOSE r \in LibraryThingResults : ~r.found,
   calibre |-> CHOOSE r \in CalibreBooks : ~r.found,
   out |-> EnrichedMetadata]

notMerge == << pipeVars, cvrVars, scanVars, reqs, itemLog, enrichCall, uniqueCall, classLog,
              classifyLog,
    moreVars >>

\* The call _merge_results(result, oclc_result, ol_result, google_result,
\* lt_result, calibre_result) on a fresh EnrichedMetadata.
MergeResults ==
  /\ ~mergeLog.done
  /\ mergeLog' = [mergeLog EXCEPT
                    !.done = TRUE,
                    !.out = merge_results(mergeLog.oclc, mergeLog.ol, mergeLog.google,
                                          mergeLog.lt, mergeLog.calibre)]
  /\ UNCHANGED notMerge

\* What a source's server can do with one request.
Responses == {"network_error", "timeout", "error_status", "unparseable", "not_found", "found"}

EnrichSources == << "oclc", "openlibrary", "google_books", "librarything" >>

\* A source's lookup function on a response: the result it returns ("found"),
\* None, or the exception that leaves it.  OCLC catches httpx.HTTPError and the
\* XML ParseError; Open Library and Google Books catch httpx.HTTPError only,
\* and response.json() raises json.JSONDecodeError; LibraryThing catches
\* Exception.
lookup(source, resp) ==
  CASE resp = "found" -> "found"
    [] resp = "not_found" -> "None"
    [] resp \in {"network_error", "timeout", "error_status"} -> "None"
    [] resp = "unparseable" ->
         IF source \in {"openlibrary", "google_books"} THEN "JSONDecodeError" ELSE "None"

NoEnrich ==
  [fn |-> "none", pc |-> 0, resp |-> << >>, sources |-> << >>, exc |-> NULL]

notEnrich == << pipeVars, cvrVars, scanVars, reqs, itemLog, mergeLog, uniqueCall, classLog,
               classifyLog,
    moreVars >>

\* enrich_by_isbn, enrich_by_title_author: the next enabled source is queried
\* (`await ..._lookup_...`) and, when it returned a result, its name is
\* appended to result.sources.  By title, LibraryThing is queried only with an
\* ISBN taken from an earlier result.
EnrichLookup ==
  /\ enrichCall.pc \in 1..Len(EnrichSources)
  /\ LET source == EnrichSources[enrichCall.pc] IN
     \E resp \in Responses, isbn_to_lookup \in BOOLEAN :
       LET asked == \/ source # "librarything"
                    \/ enrichCall.fn = "isbn"
                    \/ isbn_to_lookup /\ (\E i \in 1..Len(enrichCall.sources) :
                                            enrichCall.sources[i] \in {"openlibrary", "google_books"})
           r == IF asked THEN lookup(source, resp) ELSE "None"
       IN  enrichCall' =
             [enrichCall EXCEPT
                !.resp = Append(@, IF asked THEN resp ELSE "not_asked"),
                !.sources = IF r = "found" THEN Append(@, source) ELSE @,
                !.exc = IF r \in {"found", "None"} THEN NULL ELSE r,
                !.pc = IF r \in {"found", "None"} THEN @ + 1 ELSE -1]
  /\ UNCHANGED notEnrich

\* _merge_results and _calculate_confidence, then `return result`.
EnrichReturn ==
  /\ enrichCall.pc = Len(EnrichSources) + 1
  /\ enrichCall' = [enrichCall EXCEPT !.pc = 0]
  /\ UNCHANGED notEnrich

\* ------------------------------------------------- ensure_unique_path
\* ensure_unique_path called on "t1.ext" in a directory where some of the
\* names "t1.ext", "t1 (2).ext", ..., "t1 (MaxNames).ext" are taken.

\* The directory in which the names numbered in `taken` exist.
Directory(taken) == [p \in { << "t1", n >> : n \in taken } |-> "d1"]

NoUnique == [taken |-> {}, done |-> FALSE, out |-> NoPath]

notUnique == << pipeVars, cvrVars, scanVars, reqs, itemLog, mergeLog, enrichCall, classLog,
                classifyLog,
    moreVars >>

EnsureUniquePath ==
  /\ ~uniqueCall.done
  /\ uniqueCall' = [uniqueCall EXCEPT
                      !.done = TRUE,
                      !.out = ensure_unique_path(BasePath("t1"), Directory(uniqueCall.taken))]
  /\ UNCHANGED notUnique

\* ------------------------------------------- filing with a classification
\* file_item's catalogue step (_find_or_create_item) for records that arrive
\* with a classification, on a classifications table that holds any part of
\* the seed data and the nodes the Filer created before.

\* DDC codes a record can be classified with; << 7 >> is the short code "7".
ClassCodes == {<< 0, 0, 7 >>, << 0, 1, 0 >>, << 1, 0, 0 >>, << 1, 1, 6 >>, << 7 >>}

\* db/seed.py: top-level classes and divisions, here of the classes 0 and 1.
SeedData ==
  { [code |-> << 0, 0, 0 >>, parent_code |-> NoCode],
    [code |-> << 0, 1, 0 >>, parent_code |-> << 0, 0, 0 >>],
    [code |-> << 1, 0, 0 >>, parent_code |-> NoCode],
    [code |-> << 1, 1, 0 >>, parent_code |-> << 1, 0, 0 >> ] }

\* ForeignKey("classifications.code") on parent_code, as PostgreSQL checks it
\* when the INSERT is flushed: a parent_code names a row of the table.
parent_fk_holds(classes) ==
  \A k \in classes : k.parent_code = NoCode \/ (\E q \in classes : q.code = k.parent_code)

NoClassLog == [calls |-> 0, ddc |-> NoCode, failed |-> FALSE]

notClass == << checksum, title, src, lib, pendingFiles, run, pc, tl, result, active,
               runsLeft, lastEnd, raised, inFlight, handed, cvrVars, scanVars, reqs, itemLog,
               mergeLog, enrichCall, uniqueCall, classifyLog,
    moreVars >>

\* One record filed and committed: _ensure_classification_exists adds the node
\* and flushes; an IntegrityError leaves file_item and nothing is committed.
FileClassified(e, ddc) ==
  /\ classLog.calls < MaxClassCalls
  /\ LET s1 == ensure_classification_exists(db, ddc)
         fi == find_or_create_item(db, e, [NoCls EXCEPT !.ddc = ddc])
         ok == parent_fk_holds(s1.classes)
     IN  /\ db' = IF ok THEN fi[1] ELSE db
         /\ sess' = db'
         /\ classLog' = [calls |-> classLog.calls + 1, ddc |-> ddc, failed |-> ~ok]
  /\ UNCHANGED notClass

\* ------------------------------------------------------------ classifier
\* classifier/classifier.py and classifier/subject_mapping.py.  A DDC number
\* is the sequence of its characters (no number: the empty sequence); a
\* subject string is a sequence of words, spaces and "/" separators.

Digit == {"0", "1", "2", "3", "4", "5", "6", "7", "8", "9"}

\* DDC numbers as OCLC and Open Library report them.
DdcNumbers ==
  { << "0", "0", "4" >>, << "5" >>, << "8", "2", "3", ".", "9" >>, << "F", "i", "c" >>,
    << "E" >> }

upper_char(c) == CASE c = "i" -> "I" [] c = "c" -> "C" [] OTHER -> c

upper(q) == [i \in DOMAIN q |-> upper_char(q[i])]

\* re.match(r"(\d{1,3})", ddc): the leading digits, three at most.
RECURSIVE leading_digits(_, _)
leading_digits(q, n) ==
  IF n = 0 \/ q = << >> \/ Head(q) \notin Digit THEN << >>
  ELSE << Head(q) >> \o leading_digits(Tail(q), n - 1)

\* str.zfill(3)
zfill(q) == IF Len(q) >= 3 THEN q ELSE [i \in 1..(3 - Len(q)) |-> "0"] \o q

\* enricher/oclc.py normalise_ddc: "" when there is no number to take.
normalise_ddc(ddc) ==
  IF ddc = << >> THEN << >>
  ELSE IF upper(ddc) = << "F", "I", "C" >> THEN << "8", "2", "3" >>
  ELSE LET num == leading_digits(ddc, 3)
       IN  IF num # << >> THEN zfill(num) ELSE << >>

\* The words of a subject string: keys of SUBJECT_TO_DDC ("Fiction" is
\* "fiction" with a capital), a fiction indicator that is no key ("novel"),
\* words of genre keywords ("epic fantasy", "magic", "teen fiction"), a word
\* that is none of these, the separator and the space.
SubjectWords == {"python", "Fiction", "novel", "zzz", "/", " ", "fantasy", "epic", "Magic", "teen"}

SubjectStrings == UNION { [1..n -> SubjectWords] : n \in 1..MaxSubjectLen }

SubjectLists == {<< >>} \cup { << str >> : str \in SubjectStrings }

subject_lower(q) ==
  [i \in DOMAIN q |-> CASE q[i] = "Fiction" -> "fiction" [] q[i] = "Magic" -> "magic"
                         [] OTHER -> q[i]]

\* `key in normalised`
contains(q, w) == \E i \in DOMAIN q : q[i] = w

\* SUBJECT_TO_DDC, in the order of the dict.
SUBJECT_TO_DDC ==
  << [key |-> "python", ddc |-> << "0", "0", "5" >>],
     [key |-> "fiction", ddc |-> << "8", "2", "3" >>],
     [key |-> "fantasy", ddc |-> << "8", "2", "3" >>] >>

\* SUBJECT_TO_DDC[normalised] for a string that is a key, else "".
direct_match(normalised) ==
  IF \E k \in DOMAIN SUBJECT_TO_DDC : normalised = << SUBJECT_TO_DDC[k].key >>
  THEN SUBJECT_TO_DDC[CHOOSE k \in DOMAIN SUBJECT_TO_DDC :
                        normalised = << SUBJECT_TO_DDC[k].key >>].ddc
  ELSE << >>

\* The code of the first key of the dict that occurs in the string, else "".
part_match(normalised) ==
  LET hits == { k \in DOMAIN SUBJECT_TO_DDC : contains(normalised, SUBJECT_TO_DDC[k].key) }
  IN  IF hits = {} THEN << >>
      ELSE SUBJECT_TO_DDC[CHOOSE k \in hits : \A j \in hits : k <= j].ddc

\* classify_from_subjects: the first subject that is, or contains, a key.
RECURSIVE classify_from_subjects(_)
classify_from_subjects(subjects) ==
  IF subjects = << >> THEN << >>
  ELSE LET normalised == strip(subject_lower(Head(subjects)))
       IN  IF direct_match(normalised) # << >> THEN direct_match(normalised)
           ELSE IF part_match(normalised) # << >> THEN part_match(normalised)
           ELSE classify_from_subjects(Tail(subjects))

\* str.split on the separator.
RECURSIVE split(_, _)
split(q, acc) ==
  IF q = << >> THEN << acc >>
  ELSE IF Head(q) = "/" THEN << acc >> \o split(Tail(q), << >>)
  ELSE split(Tail(q), Append(acc, Head(q)))

\* The code of the first part that is a key, else "".
RECURSIVE parts_match(_)
parts_match(parts) ==
  IF parts = << >> THEN << >>
  ELSE LET normalised == strip(subject_lower(Head(parts)))
       IN  IF direct_match(normalised) # << >> THEN direct_match(normalised)
           ELSE parts_match(Tail(parts))

\* classify_from_categories: the first part of a category that is a key.
RECURSIVE classify_from_categories(_)
classify_from_categories(categories) ==
  IF categories = << >> THEN << >>
  ELSE IF parts_match(split(Head(categories), << >>)) # << >>
       THEN parts_match(split(Head(categories), << >>))
  ELSE classify_from_categories(Tail(categories))

FICTION_DDC_CODES ==
  { << "8", d, u >> : d \in Digit \ {"0"}, u \in {"0", "3"} } \cup {<< "8", "0", "0" >>}

FictionIndicators == {"fiction", "novel", "fantasy"}

\* _is_fiction: the code is in the literature band, or a subject contains a
\* fiction indicator.
is_fiction(ddc, subjects) ==
  \/ /\ ddc # << >>
     /\ (IF Len(ddc) >= 3 THEN SubSeq(ddc, 1, 3) ELSE zfill(ddc)) \in FICTION_DDC_CODES
  \/ \E i \in DOMAIN subjects, w \in FictionIndicators :
       contains(subject_lower(subjects[i]), w)

\* `keyword in subject` for a keyword of several words.
occurs(q, kw) == \E i \in 1..(Len(q) - Len(kw) + 1) : SubSeq(q, i, i + Len(kw) - 1) = kw

\* GENRE_KEYWORDS: two of the genres, with three of their keywords each.
GENRE_KEYWORDS ==
  [g \in {"Fantasy", "Young Adult"} |->
     IF g = "Fantasy" THEN {<< "fantasy" >>, << "magic" >>, << "epic", " ", "fantasy" >>}
     ELSE {<< "young", " ", "adult" >>, << "ya", " ", "fiction" >>,
           << "teen", " ", "fiction" >>}]

\* sorted(genres)
sorted(genres) ==
  (IF "Fantasy" \in genres THEN << "Fantasy" >> ELSE << >>)
    \o (IF "Young Adult" \in genres THEN << "Young Adult" >> ELSE << >>)

\* _extract_genres comparing the subjects as they are written.
extract_genres_case_sensitive(subjects) ==
  sorted({ g \in DOMAIN GENRE_KEYWORDS :
             \E kw \in GENRE_KEYWORDS[g], i \in DOMAIN subjects : occurs(subjects[i], kw) })

\* _extract_genres: the genres with a keyword in some lower-cased subject.
extract_genres(subjects) ==
  sorted({ g \in DOMAIN GENRE_KEYWORDS :
             \E kw \in GENRE_KEYWORDS[g], i \in DOMAIN subjects :
               occurs(subject_lower(subjects[i]), kw) })

\* genres = None (no list holds it: no genre has this name).
NoGenres == << NULL >>

\* ClassificationResult()
ClassificationResult ==
  [ddc |-> << >>, source |-> NULL, confidence |-> 0, needs_review |-> FALSE,
   is_fiction |-> FALSE, genres |-> NoGenres]

\* What enrich_by_isbn hands to classify: result.sources, and the
\* ddc_normalised of _merge_results (lines 297-304).
enrich_ddc(oclc, ol, subjects) ==
  [sources |-> (IF oclc.found THEN << "oclc" >> ELSE << >>)
                 \o (IF ol.found THEN << "openlibrary" >> ELSE << >>),
   ddc_normalised |-> IF oclc.found /\ oclc.ddc # << >> THEN normalise_ddc(oclc.ddc)
                      ELSE IF ol.found /\ ol.ddc # << >> THEN normalise_ddc(ol.ddc)
                      ELSE << >>,
   subjects |-> subjects]

\* The first `if` chain of classify, confidences in hundredths.
classify_code(enriched) ==
  IF enriched.ddc_normalised # << >>
  THEN LET source == IF contains(enriched.sources, "oclc") THEN "oclc" ELSE "openlibrary"
       IN  [ClassificationResult EXCEPT
              !.ddc = enriched.ddc_normalised, !.source = source,
              !.confidence = IF source = "oclc" THEN 95 ELSE 85]
  ELSE IF classify_from_subjects(enriched.subjects) # << >>
  THEN [ClassificationResult EXCEPT
          !.ddc = classify_from_subjects(enriched.subjects), !.source = "subject_mapping",
          !.confidence = 60]
  ELSE IF classify_from_categories(enriched.subjects) # << >>
  THEN [ClassificationResult EXCEPT
          !.ddc = classify_from_categories(enriched.subjects), !.source = "subject_mapping",
          !.confidence = 50]
  ELSE [ClassificationResult EXCEPT !.needs_review = TRUE, !.confidence = 0]

\* classify without the boost for fiction.
classify_no_boost(enriched) ==
  LET r == classify_code(enriched)
      fiction == is_fiction(r.ddc, enriched.subjects)
  IN  [r EXCEPT !.is_fiction = fiction,
                !.genres = IF fiction THEN extract_genres(enriched.subjects) ELSE @]

\* classify: the code, then the fiction test and the boost.
classify(enriched) ==
  LET r == classify_code(enriched)
      fiction == is_fiction(r.ddc, enriched.subjects)
      g == IF fiction THEN extract_genres(enriched.subjects) ELSE r.genres
  IN  IF fiction /\ r.confidence < 50
      THEN [r EXCEPT !.is_fiction = TRUE, !.genres = g, !.confidence = 60,
                     !.needs_review = FALSE]
      ELSE [r EXCEPT !.is_fiction = fiction, !.genres = g]

NoSource == [found |-> FALSE, ddc |-> << >>]

SourceDdcs == [found : {TRUE}, ddc : DdcNumbers \cup {<< >>}] \cup {NoSource}

NoClassify ==
  [done |-> FALSE, oclc |-> NoSource, ol |-> NoSource, subjects |-> << >>,
   out |-> ClassificationResult]

notClassify == << pipeVars, cvrVars, scanVars, reqs, itemLog, mergeLog, enrichCall, uniqueCall,
                 classLog,
    moreVars >>

\* classify(enriched) on the record the enricher merged.
Classify ==
  /\ ~classifyLog.done
  /\ classifyLog' = [classifyLog EXCEPT
                       !.done = TRUE,
                       !.out = classify(enrich_ddc(classifyLog.oclc, classifyLog.ol,
                                                   classifyLog.subjects))]
  /\ UNCHANGED notClassify

\* ------------------------------------------------ cleanup_empty_parents
\* filer/transfer.py: _remove_and_cleanup(source, settings.returns_dir) on an
\* intake tree.  A path is the sequence of its components.

IntakeRoot == << "library", ".returns" >>

\* The directories there can be: the intake root, its ancestors, directories
\* below it, and directories beside it.
DirUniverse ==
  { << >>, << "library" >>, IntakeRoot, IntakeRoot \o << "a" >>, IntakeRoot \o << "a", "b" >>,
    IntakeRoot \o << "a", "c" >>, << "library", "other" >>, << "library", "other", "b" >> }

\* The directories a source file can be in.
SourceDirs ==
  { IntakeRoot, IntakeRoot \o << "a" >>, IntakeRoot \o << "a", "b" >>,
    << "library", "other", "b" >> }

\* Path.parent
parent(path) == IF path = << >> THEN << >> ELSE SubSeq(path, 1, Len(path) - 1)

\* Path.is_relative_to
is_relative_to(path, other) ==
  Len(other) <= Len(path) /\ SubSeq(path, 1, Len(other)) = other

\* A path and all the directories above it.
Parents(path) == { SubSeq(path, 1, k) : k \in 0..Len(path) }

\* current.iterdir()
iterdir(dirs, files, d) == { x \in dirs \cup files : x # << >> /\ parent(x) = d }

\* The loop condition without the test against stop_at.
in_bounds_to_top(current, stop_at) == is_relative_to(current, stop_at)

\* cleanup_empty_parents: `while current != stop_at and
\* current.is_relative_to(stop_at)`.
in_bounds(current, stop_at) == current # stop_at /\ is_relative_to(current, stop_at)

NoCleanup ==
  [pc |-> "idle", dirs |-> {}, files |-> {}, source |-> << >>, current |-> << >>,
   removed |-> {}, error |-> FALSE, dirs0 |-> {}, files0 |-> {}]

notCleanup == << pipeVars, cvrVars, scanVars, reqs, itemLog, mergeLog, enrichCall, uniqueCall,
                 classLog, classifyLog, lateVars >>

\* source.unlink(); an OSError ends _remove_and_cleanup (logged, non-fatal).
RemoveSource ==
  /\ cleanup.pc = "unlink"
  /\ \E o \in {"ok", "OSError"} :
       cleanup' = IF o = "ok"
                  THEN [cleanup EXCEPT !.files = @ \ {cleanup.source}, !.pc = "walk",
                                       !.current = parent(cleanup.source)]
                  ELSE [cleanup EXCEPT !.pc = "done", !.error = TRUE]
  /\ UNCHANGED notCleanup

\* One turn of the loop that removes: current exists and is empty, rmdir
\* succeeds and the walk moves up, or rmdir raises OSError and the walk ends.
CleanupRmdir ==
  /\ cleanup.pc = "walk"
  /\ in_bounds(cleanup.current, IntakeRoot)
  /\ cleanup.current \in cleanup.dirs
  /\ iterdir(cleanup.dirs, cleanup.files, cleanup.current) = {}
  /\ \E o \in {"ok", "OSError"} :
       cleanup' = IF o = "ok"
                  THEN [cleanup EXCEPT !.dirs = @ \ {cleanup.current},
                                       !.removed = @ \cup {cleanup.current},
                                       !.current = parent(cleanup.current)]
                  ELSE [cleanup EXCEPT !.pc = "done", !.error = TRUE]
  /\ UNCHANGED notCleanup

\* The loop ends: stop_at is reached, or current is missing or not empty.
CleanupEnd ==
  /\ cleanup.pc = "walk"
  /\ ~ (/\ in_bounds(cleanup.current, IntakeRoot)
        /\ cleanup.current \in cleanup.dirs
        /\ iterdir(cleanup.dirs, cleanup.files, cleanup.current) = {})
  /\ cleanup' = [cleanup EXCEPT !.pc = "done"]
  /\ UNCHANGED notCleanup

\* ------------------------------------------------- the cover of an Item
\* file_item lines 139-174 and _save_cover_to_folder: the filings of a few
\* source files, each resolving to one of the Items; a filing is suspended
\* only while its cover is downloaded, and then another filing can run.
Filings == 1..NumFilings

CoverItems == 1..NumCoverItems

\* Where a filing's cover comes from: extract_cover finds one in the file, or
\* the enrichment has a cover_url, or neither.
CoverKinds == {"embedded", "url", "none"}

NoImage == 0

CoverJpg == "cover.jpg"

NoCovers ==
  [cover_path |-> << >>, file |-> << >>, writes |-> << >>, clobbered |-> << >>,
   pc |-> << >>, item |-> << >>, kind |-> << >>]

notCovers == << pipeVars, cvrVars, scanVars, reqs, itemLog, mergeLog, enrichCall, uniqueCall,
                classLog, classifyLog, cleanup >>

\* cover_path.write_bytes(processed): cover.jpg of the Item's folder now holds
\* the image of filing f, whatever was there.
write_bytes(c, f) ==
  LET it == c.item[f]
  IN  [c EXCEPT !.file[it] = f,
                !.writes[it] = @ + 1,
                !.clobbered[it] = @ \/ c.cover_path[it] # NULL]

\* _save_cover_to_folder from the point where the image is known (data: there
\* is one): the state afterwards and the relative path returned, or None.
save_cover_to_folder(c, f, data) ==
  IF data THEN << write_bytes(c, f), CoverJpg >> ELSE << c, NULL >>

\* file_item lines 153-174 and after: copy_verify_remove, and `if cover_path:
\* item.cover_path = cover_path` when the move succeeded; a failed move
\* returns before that.
finish_filing(c, f, cover_path, success) ==
  IF success /\ cover_path # NULL
  THEN [c EXCEPT !.pc[f] = "done", !.cover_path[c.item[f]] = cover_path]
  ELSE [c EXCEPT !.pc[f] = "done"]

\* file_item up to its first suspension: `if not item.cover_path`, then the
\* extraction; with an embedded cover or none the filing runs to its end.
FileItem(f) ==
  /\ covers.pc[f] = "pending"
  /\ \E success \in BOOLEAN :
       LET it == covers.item[f]
       IN  covers' =
             IF covers.cover_path[it] # NULL
             THEN finish_filing(covers, f, NULL, success)
             ELSE IF covers.kind[f] = "url"
             THEN [covers EXCEPT !.pc[f] = "download"]
             ELSE LET sv == save_cover_to_folder(covers, f, covers.kind[f] = "embedded")
                  IN  finish_filing(sv[1], f, sv[2], success)
  /\ UNCHANGED notCovers

\* download_cover returns (the image, or None when the download failed); the
\* filing goes on to its end.
CoverDownloaded(f) ==
  /\ covers.pc[f] = "download"
  /\ \E data \in BOOLEAN, success \in BOOLEAN :
       LET sv == save_cover_to_folder(covers, f, data)
       IN  covers' = finish_filing(sv[1], f, sv[2], success)
  /\ UNCHANGED notCovers

\* ------------------------------------------------------ specifications
PipeInit ==
  /\ checksum \in [Recs -> Digests]
  /\ checksum[1] = "d1"
  /\ title \in [Recs -> Titles]
  /\ title[1] = "t1"
  /\ src = checksum
  /\ lib = [p \in {} |-> Bad]
  /\ db = EmptyCatalogue
  /\ sess = EmptyCatalogue
  /\ pendingFiles = << >>
  /\ run = Idle
  /\ pc = [r \in Recs |-> "idle"]
  /\ tl = [r \in Recs |-> NoLocals]
  /\ result = [r \in Recs |-> "none"]
  /\ active = NoRec
  /\ runsLeft = MaxRuns
  /\ lastEnd = "none"
  /\ raised = NoRec
  /\ inFlight = {}
  /\ handed = [r \in Recs |-> 0]

CvrIdle ==
  [call |-> CvrReturn(CvrCall(NoFile, NoFile, NULL), "none"), arg |-> NULL,
   src0 |-> NoFile, dst0 |-> NoFile, prev |-> "none", payload |-> NULL]

\* The scanner at rest on an empty tree listing.
ScanIdle ==
  /\ tree = [p \in Paths |-> CHOOSE k \in FileKinds : k.ok /\ k.format = "mobi"]
  /\ manifest = {}
  /\ scan = ScanLocals
  /\ scanLog = NoLog

LateIdle ==
  /\ covers = NoCovers

MoreIdle ==
  /\ cleanup = NoCleanup
  /\ LateIdle

FnIdle ==
  /\ mergeLog = NoMerge
  /\ enrichCall = NoEnrich
  /\ uniqueCall = NoUnique
  /\ classLog = NoClassLog
  /\ classifyLog = NoClassify
  /\ MoreIdle

ExtIdle == ScanIdle /\ reqs = 0 /\ itemLog = NoItemLog /\ FnIdle

Init ==
  /\ PipeInit
  /\ cvr = CvrIdle
  /\ cvrCalls = 0
  /\ ExtIdle

Next ==
  \/ \E dry \in BOOLEAN, batch_size \in 1..NumRecs, limit \in 0..1 :
       StartRun(dry, batch_size, limit)
  \/ \E r \in Recs : TaskReview(r)
  \/ \E r \in Recs : TaskDuplicate(r)
  \/ \E r \in Recs : TaskFile(r)
  \/ \E r \in Recs : TaskRaise(r)
  \/ \E r \in Recs : TaskCover(r)
  \/ \E r \in Recs : TaskMove(r)
  \/ NextBatch
  \/ FinishRun
  \/ CommitRaise
  \/ Crash

Spec == Init /\ [][Next]_vars

\* A payload at the source, a destination that is free, holds the payload or
\* holds something else, and every choice of the expected_checksum argument.
InitCVR ==
  /\ PipeInit
  /\ checksum = [r \in Recs |-> "d1"]
  /\ title = [r \in Recs |-> "t1"]
  /\ cvrCalls = 1
  /\ \E s \in Digests, d \in Content \cup {NoFile}, e \in Digests \cup {NULL} :
       cvr = [call |-> CvrCall(s, d, e), arg |-> e, src0 |-> s, dst0 |-> d,
              prev |-> "none", payload |-> s]
  /\ ExtIdle

NextCVR == CvrNewCall \/ CvrStep

SpecCVR == InitCVR /\ [][NextCVR]_vars

\* The pipeline at rest.
PipeIdle ==
  /\ PipeInit
  /\ checksum = [r \in Recs |-> "d1"]
  /\ title = [r \in Recs |-> "t1"]
  /\ cvr = CvrIdle
  /\ cvrCalls = 0

\* Any source tree, nothing recorded yet.
InitScan ==
  /\ PipeIdle
  /\ tree \in [Paths -> FileKinds]
  /\ manifest = {}
  /\ scan = ScanLocals
  /\ scanLog = NoLog
  /\ reqs = 0
  /\ itemLog = NoItemLog
  /\ FnIdle

NextScan ==
  \/ \E batch_size \in ScanBatchSizes : ScanBegin(batch_size)
  \/ ScanFile
  \/ ScanEnd
  \/ DedupBegin
  \/ DedupGroup
  \/ DedupEnd
  \/ ScanKill

SpecScan == InitScan /\ [][NextScan]_vars

\* Migration runs and, between them, requests to the review API.
NextReview ==
  \/ Next
  \/ \E r \in Recs, status \in {"skipped", "duplicate"} : SkipSourceFile(r, status)
  \/ \E r \in Recs : FileSourceFile(r)

SpecReview == Init /\ [][NextReview]_vars

InitItem ==
  /\ PipeIdle
  /\ ExtIdle

NextItem == \E e \in ItemInputs : FindOrCreateItem(e)

SpecItem == InitItem /\ [][NextItem]_vars

\* _merge_results on every combination of source results.
InitMerge ==
  /\ PipeIdle
  /\ ScanIdle /\ reqs = 0 /\ itemLog = NoItemLog
  /\ enrichCall = NoEnrich
  /\ uniqueCall = NoUnique /\ classLog = NoClassLog /\ classifyLog = NoClassify
  /\ MoreIdle
  /\ \E oclc \in OCLCResults, ol \in OpenLibraryResults, google \in GoogleBooksResults,
        lt \in LibraryThingResults, calibre \in CalibreBooks :
       mergeLog = [done |-> FALSE, oclc |-> oclc, ol |-> ol, google |-> google, lt |-> lt,
                   calibre |-> calibre, out |-> EnrichedMetadata]

NextMerge == MergeResults

SpecMerge == InitMerge /\ [][NextMerge]_vars

\* One call of enrich_by_isbn or enrich_by_title_author, all sources enabled.
InitEnrich ==
  /\ PipeIdle
  /\ ScanIdle /\ reqs = 0 /\ itemLog = NoItemLog
  /\ mergeLog = NoMerge
  /\ uniqueCall = NoUnique /\ classLog = NoClassLog /\ classifyLog = NoClassify
  /\ MoreIdle
  /\ \E fn \in {"isbn", "title"} : enrichCall = [NoEnrich EXCEPT !.fn = fn, !.pc = 1]

NextEnrich == EnrichLookup \/ EnrichReturn

SpecEnrich == InitEnrich /\ [][NextEnrich]_vars

\* ensure_unique_path in a directory where the first k names are taken, but
\* for at most one of them.
InitUnique ==
  /\ PipeIdle
  /\ ScanIdle /\ reqs = 0 /\ itemLog = NoItemLog
  /\ mergeLog = NoMerge /\ enrichCall = NoEnrich
  /\ classLog = NoClassLog /\ classifyLog = NoClassify
  /\ MoreIdle
  /\ \E k \in 0..MaxNames, h \in 0..MaxNames :
       uniqueCall = [NoUnique EXCEPT !.taken = (1..k) \ {h}]

NextUnique == EnsureUniquePath

SpecUnique == InitUnique /\ [][NextUnique]_vars

\* Records filed on a classifications table seeded in part or not at all.
InitClass ==
  /\ PipeIdle
  /\ ScanIdle /\ reqs = 0 /\ itemLog = NoItemLog
  /\ mergeLog = NoMerge /\ enrichCall = NoEnrich
  /\ uniqueCall = NoUnique /\ classLog = NoClassLog /\ classifyLog = NoClassify
  /\ MoreIdle
  /\ \E seeded \in SUBSET SeedData :
       /\ parent_fk_holds(seeded)
       /\ db = [EmptyCatalogue EXCEPT !.classes = seeded]
       /\ sess = db

NextClass ==
  \E t \in {"a", "b"}, ddc \in ClassCodes :
    FileClassified([title |-> t, authors |-> << "x" >>, isbn13 |-> NULL, isbn |-> NULL], ddc)

SpecClass == InitClass /\ [][NextClass]_vars

\* classify on every combination of what OCLC and Open Library reported and
\* of the merged subjects.
InitClassify ==
  /\ PipeIdle
  /\ ScanIdle /\ reqs = 0 /\ itemLog = NoItemLog
  /\ mergeLog = NoMerge /\ enrichCall = NoEnrich
  /\ uniqueCall = NoUnique /\ classLog = NoClassLog
  /\ MoreIdle
  /\ \E oclc \in SourceDdcs, ol \in SourceDdcs, subjects \in SubjectLists :
       classifyLog = [NoClassify EXCEPT !.oclc = oclc, !.ol = ol, !.subjects = subjects]

NextClassify == Classify

SpecClassify == InitClassify /\ [][NextClassify]_vars

\* A source file about to be removed, in a tree with any other files and
\* directories.
InitCleanup ==
  /\ PipeIdle
  /\ ScanIdle /\ reqs = 0 /\ itemLog = NoItemLog
  /\ mergeLog = NoMerge /\ enrichCall = NoEnrich
  /\ uniqueCall = NoUnique /\ classLog = NoClassLog /\ classifyLog = NoClassify
  /\ LateIdle
  /\ \E sd \in SourceDirs, with_file \in SUBSET (DirUniverse \ {<< >>}), extra \in SUBSET DirUniverse :
       LET dirs == UNION { Parents(d) : d \in {sd} \cup with_file \cup extra }
           files == {sd \o << "s" >>} \cup { d \o << "f" >> : d \in with_file }
       IN  cleanup = [NoCleanup EXCEPT !.pc = "unlink", !.dirs = dirs, !.files = files,
                                       !.source = sd \o << "s" >>, !.dirs0 = dirs,
                                       !.files0 = files]

NextCleanup == RemoveSource \/ CleanupRmdir \/ CleanupEnd

SpecCleanup == InitCleanup /\ [][NextCleanup]_vars

\* A few source files about to be filed, each resolving to one of the Items,
\* none of which has a cover yet.
InitCover ==
  /\ PipeIdle
  /\ ScanIdle /\ reqs = 0 /\ itemLog = NoItemLog
  /\ mergeLog = NoMerge /\ enrichCall = NoEnrich
  /\ uniqueCall = NoUnique /\ classLog = NoClassLog /\ classifyLog = NoClassify
  /\ cleanup = NoCleanup
  /\ \E item \in [Filings -> CoverItems], kind \in [Filings -> CoverKinds] :
       covers = [cover_path |-> [it \in CoverItems |-> NULL],
                 file |-> [it \in CoverItems |-> NoImage],
                 writes |-> [it \in CoverItems |-> 0],
                 clobbered |-> [it \in CoverItems |-> FALSE],
                 pc |-> [f \in Filings |-> "pending"],
                 item |-> item,
                 kind |-> kind]

NextCover == \E f \in Filings : FileItem(f) \/ CoverDownloaded(f)

SpecCover == InitCover /\ [][NextCover]_vars

\* ================================================================ claims
LibraryHas(fs, d) == \E p \in DOMAIN fs : fs[p] = d

\* C1: in every reachable state a complete copy of each record's payload
\* exists: the source file is still there, or a library file has the record's
\* expected digest (so a source is only ever removed while such a file exists).
C1_PayloadNeverLost ==
  \A r \in Recs : src[r] = checksum[r] \/ LibraryHas(lib, checksum[r])

\* C1 witness: sources were removed on both paths, by the move of a migrated
\* record and by the duplicate branch.
C1_Witness ==
  \E r1, r2 \in Recs :
    /\ src[r1] = NoFile /\ db.status[r1] = "migrated"
    /\ src[r2] = NoFile /\ db.status[r2] = "duplicate"

\* C2: in every committed state no two File rows share a digest.
C2_OneFilePerDigest ==
  \A f, g \in db.files : f.checksum_md5 = g.checksum_md5 => f = g

PathsOf(d) == { p \in DOMAIN lib : lib[p] = d }

RowsOf(d) == { f \in db.files : f.checksum_md5 = d }

\* C3: after the process was killed inside a batch and a later run completed,
\* every record of that batch that the replay processed is consistent with
\* the file system: not failed with its source gone, and if migrated or
\* duplicate its payload is in the library exactly once with exactly one File row.
C3_ReplaySafe ==
  lastEnd = "completed" =>
    \A r \in inFlight :
      /\ db.status[r] = "failed" => src[r] # NoFile
      /\ db.status[r] \in {"migrated", "duplicate"} =>
           /\ Cardinality(PathsOf(checksum[r])) = 1
           /\ Cardinality(RowsOf(checksum[r])) = 1

\* C4: when a record's move has failed (digest mismatch or I/O error of the
\* copy), no bad copy is left at its target, its source is intact, the record
\* is failed with an error message and no File was recorded for its target.
C4_FailedMoveCleansUp ==
  \A r \in Recs :
    result[r] = "failed" =>
      /\ FileAt(lib, tl[r].tpath) # Bad
      /\ src[r] = checksum[r]
      /\ sess.status[r] = "failed"
      /\ sess.error[r] # NULL
      /\ \A k \in DOMAIN pendingFiles :
           pendingFiles[k].file_path = tl[r].tpath =>
             pendingFiles[k].checksum_md5 # checksum[r]

\* C5: no run is ended by an error raised while processing one file, and the
\* record whose processing raised ends failed.
C5_ErrorIsolated ==
  /\ lastEnd # "aborted"
  /\ raised # NoRec => db.status[raised] = "failed"

\* C6: a call made after a successful move (the previous call returned True,
\* the source is gone, the destination holds the payload) returns True and
\* leaves both files as they were, whatever expected_checksum argument is used.
C6_SecondCallIsNoOp ==
  ( /\ cvr.call.phase = "done"
    /\ cvr.prev = "True"
    /\ cvr.src0 = NoFile
    /\ cvr.dst0 = cvr.payload )
  => ( /\ cvr.call.ret = "True"
       /\ cvr.call.src = cvr.src0
       /\ cvr.call.dst = cvr.dst0 )

\* C7: a record is handed to process_file only while its committed status is
\* pending and at most once per run; the row of a record committed as
\* migrated, the committed File rows and the files at their paths never change.
C7_MigratedUntouched ==
  [][ /\ \A r \in Recs :
           handed'[r] > handed[r] => (db.status[r] = "pending" /\ handed[r] = 0)
      /\ \A r \in Recs :
           db.status[r] = "migrated" =>
             /\ db'.status[r] = "migrated"
             /\ db'.file_id[r] = db.file_id[r]
             /\ db'.meta[r] = db.meta[r]
             /\ db'.error[r] = db.error[r]
             /\ pc'[r] = "idle"
      /\ \A f \in db.files :
           /\ f \in db'.files
           /\ FileAt(lib', f.file_path) = FileAt(lib, f.file_path) ]_vars

\* C7 witness: a record migrated by an earlier run is not handed out in a
\* later run in which another record fails.
C7_Witness ==
  \E r1, r2 \in Recs :
    /\ db.status[r1] = "migrated" /\ handed[r1] = 0
    /\ RowsOf(checksum[r1]) # {}
    /\ handed[r2] = 1 /\ result[r2] = "failed"

\* C8: when process_file's classification is flagged needs_review or has a
\* confidence below the threshold, the step returns needs_review with the
\* status pending, adds the two snapshots to the metadata bag and keeps the
\* rest, and changes neither a file nor any catalogue table.
C8_ReviewLeavesPending ==
  [][ \A r \in Recs :
        ( /\ pc[r] = "enrich" /\ pc'[r] # "enrich" /\ run'.state = "running"
          /\ (tl'[r].cls.needs_review \/ tl'[r].cls.confidence < ConfidenceThreshold) )
        => ( /\ result'[r] = "needs_review"
             /\ sess'.status[r] = "pending"
             /\ sess'.meta[r] = sess.meta[r] \cup ReviewKeys
             /\ ExtractedKeys \subseteq sess'.meta[r]
             /\ src' = src /\ lib' = lib
             /\ sess'.items = sess.items /\ sess'.creators = sess.creators
             /\ sess'.classes = sess.classes /\ sess'.files = sess.files
             /\ pendingFiles' = pendingFiles ) ]_vars

\* C8 witness: a record whose classification was not flagged but fell below
\* the threshold was queued for review.
C8_Witness ==
  \E r \in Recs :
    /\ result[r] = "needs_review"
    /\ ~tl[r].cls.needs_review
    /\ ReviewKeys \subseteq sess.meta[r]

\* C9: no step of a dry run changes the committed catalogue or a file.
C9_DryRunWritesNothing ==
  [][ (run.state = "running" /\ run.dry) => (db' = db /\ src' = src /\ lib' = lib) ]_vars

\* C10: a record committed as migrated has a migrated_file_id, and it is the
\* id of a File row holding the record's payload.
C10_MigratedLinkedToFile ==
  \A r \in Recs :
    db.status[r] = "migrated" =>
      /\ db.file_id[r] # NoId
      /\ \E f \in db.files : f.id = db.file_id[r] /\ f.checksum_md5 = checksum[r]

\* C11: no source path is ever recorded twice and no scan fails on the path
\* constraint; once a scan and then a dedup pass have completed, a further
\* scan_source_library of the unchanged tree adds no row and leaves the table
\* as it was, and a further identify_duplicates finds no group and marks nothing.
C11_RescanAddsNothing ==
  /\ \A f, g \in manifest : f.source_path = g.source_path => f = g
  /\ scanLog.last # "error"
  /\ (scanLog.last = "scan" /\ scanLog.settledAtCall) =>
       /\ scanLog.new_files = 0
       /\ scan.state = "idle" => manifest = scanLog.before
  /\ (scanLog.last = "dedup" /\ scanLog.settledAtCall) =>
       /\ scanLog.groups = 0
       /\ scanLog.marked = 0

\* C11 witness: a re-scan returned after a scan and a dedup pass that marked a
\* duplicate.
C11_Witness ==
  /\ scanLog.last = "scan"
  /\ scanLog.settledAtCall
  /\ scan.state = "idle"
  /\ \E f \in manifest : f.status = "duplicate"

\* The pending rows of a table with a digest.
PendingOf(rows, d) == { f \in rows : f.status = "pending" /\ f.checksum_md5 = d }

\* C12: when identify_duplicates has returned, each digest has at most one
\* pending row; a row that was pending before the pass is unchanged or is now
\* a duplicate of the row of its digest that is still pending; every digest
\* that had a pending row still has one; rows that were not pending before the
\* pass are unchanged.
C12_OnePendingPerDigest ==
  (scan.state = "idle" /\ scanLog.last = "dedup") =>
    /\ \A d \in Digests : Cardinality(PendingOf(manifest, d)) <= 1
    /\ \A d \in Digests : PendingOf(scanLog.before, d) # {} => PendingOf(manifest, d) # {}
    /\ \A f \in scanLog.before :
         IF f.status # "pending" THEN f \in manifest
         ELSE \/ f \in manifest
              \/ \E p \in PendingOf(manifest, f.checksum_md5) :
                   /\ p \in scanLog.before
                   /\ [f EXCEPT !.status = "duplicate", !.duplicate_of_id = p.id] \in manifest
    /\ { f.id : f \in manifest } = { f.id : f \in scanLog.before }

\* C12 witness: a pass marked a row while the table already held a duplicate
\* of an earlier pass.
C12_Witness ==
  /\ scan.state = "idle"
  /\ scanLog.last = "dedup"
  /\ scanLog.marked > 0
  /\ \E f \in scanLog.before : f.status = "duplicate"

\* C13: a committed status of migrated, duplicate or failed never changes
\* again, and a skipped record can only stay skipped or go back to pending.
C13_TerminalFinal ==
  [][ \A r \in Recs :
        /\ db.status[r] \in {"migrated", "duplicate", "failed"} => db'.status[r] = db.status[r]
        /\ db.status[r] = "skipped" => db'.status[r] \in {"skipped", "pending"} ]_vars

\* The Items of a table the resolution order of C14 selects for a record: those
\* with its ISBN-13; else those with its ISBN-10; else, for a record with
\* authors, those with the same title and the same first author, both compared
\* case-insensitively; for a record without authors, the Item with that title
\* if there is exactly one.
C14_Expected(items, e) ==
  LET by13 == IF e.isbn13 # NULL THEN { it \in items : it.isbn13 = e.isbn13 } ELSE {}
      by10 == IF e.isbn # NULL THEN { it \in items : it.isbn = e.isbn } ELSE {}
      sameTitle == { it \in items : lower(Text[it.title]) = lower(Text[e.title]) }
      sameAuthor == { it \in sameTitle :
                        /\ it.authors # << >>
                        /\ lower(Text[it.authors[1]]) = lower(Text[e.authors[1]]) }
  IN  IF by13 # {} THEN by13
      ELSE IF by10 # {} THEN by10
      ELSE IF e.authors # << >> THEN sameAuthor
      ELSE IF Cardinality(sameTitle) = 1 THEN sameTitle ELSE {}

\* C14: each call of _find_or_create_item returns an Item the resolution order
\* selects, and creates one only when the order selects none; a record with
\* authors or an ISBN that is filed twice in a row yields no second Item.
C14_ResolutionOrder ==
  itemLog.calls > 0 =>
    LET expected == C14_Expected(itemLog.before, itemLog.e)
    IN  /\ expected = {} => itemLog.created
        /\ expected # {} => (~itemLog.created /\ itemLog.id \in { it.id : it \in expected })
        /\ ( /\ itemLog.calls > 1
             /\ itemLog.prev = itemLog.e
             /\ (itemLog.e.authors # << >> \/ itemLog.e.isbn13 # NULL \/ itemLog.e.isbn # NULL) )
           => ~itemLog.created

\* The first non-empty value of a chain of optional strings, else the default.
RECURSIVE FirstTruthy(_, _)
FirstTruthy(chain, default) ==
  IF chain = << >> THEN default
  ELSE IF truthy(Head(chain)) THEN Head(chain) ELSE FirstTruthy(Tail(chain), default)

\* The first non-empty list of a chain of lists, else the empty list.
RECURSIVE FirstList(_)
FirstList(chain) ==
  IF chain = << >> THEN << >>
  ELSE IF Head(chain) # << >> THEN Head(chain) ELSE FirstList(Tail(chain))

C16_FailureIsAbsence ==
  enrichCall.fn # "none" /\ enrichCall.pc <= 0 =>
    /\ enrichCall.exc = NULL
    /\ \A i \in 1..Len(EnrichSources) :
         (\E j \in 1..Len(enrichCall.sources) : enrichCall.sources[j] = EnrichSources[i])
           <=> enrichCall.resp[i] = "found"

\* The smallest number from 2 on whose name is free in the directory.
FirstFree(taken) == CHOOSE n \in 2..(MaxNames + 1) : n \notin taken /\ \A m \in 2..(n - 1) : m \in taken

\* C17 as stated: ensure_unique_path returns the path itself when no file is
\* there, else the path with " (n)" for the smallest n >= 2 at which no file
\* exists, however many names are taken.
C17_AnyNumberOfCollisions ==
  uniqueCall.done =>
    uniqueCall.out = IF 1 \notin uniqueCall.taken THEN BasePath("t1")
                     ELSE << "t1", FirstFree(uniqueCall.taken) >>

\* C17 amended: ensure_unique_path returns the path itself when no file is
\* there; else the path with " (n)" for the smallest n in 2..100 at which no
\* file exists; when the path and all of " (2)" .. " (100)" exist it raises
\* ValueError.  A path it returns never names an existing file.
C17_UniqueUpToLimit ==
  uniqueCall.done =>
    /\ 1 \notin uniqueCall.taken => uniqueCall.out = BasePath("t1")
    /\ 1 \in uniqueCall.taken /\ FirstFree(uniqueCall.taken) <= SafetyLimit =>
         uniqueCall.out = << "t1", FirstFree(uniqueCall.taken) >>
    /\ 1 \in uniqueCall.taken /\ FirstFree(uniqueCall.taken) > SafetyLimit =>
         uniqueCall.out = ValueError
    /\ uniqueCall.out # ValueError => uniqueCall.out[2] \notin uniqueCall.taken

\* C17 witness: the path and " (2)" exist; " (3)" is returned.
C17_Witness ==
  /\ uniqueCall.done
  /\ {1, 2} \subseteq uniqueCall.taken
  /\ 3 \notin uniqueCall.taken
  /\ uniqueCall.out = << "t1", 3 >>

\* C18: filing a record with a classification code does not fail for want of
\* a Classification node, whatever the table held; afterwards every non-null
\* Item.classification_code and every parent_code names a Classification row.
C18_ClassificationResolves ==
  classLog.calls > 0 =>
    /\ ~classLog.failed
    /\ \A it \in db.items :
         it.classification_code # NoCode =>
           \E k \in db.classes : k.code = it.classification_code
    /\ parent_fk_holds(db.classes)

\* The code the enrichment supplied to the classifier, and whether it is OCLC's.
SuppliedCode == enrich_ddc(classifyLog.oclc, classifyLog.ol, classifyLog.subjects).ddc_normalised

SuppliedByOCLC == classifyLog.oclc.found /\ classifyLog.oclc.ddc # << >>

\* C19: for a record not detected as fiction the code is that of the first
\* applicable step: the code supplied by enrichment, with confidence 0.95
\* exactly when OCLC supplied it and 0.85 when another source did; the subject
\* keyword lookup (0.6); the categories lookup (0.5); and when no step applies
\* there is no code, needs_review is true and the confidence is 0.0.
C19_CodeSourceAndConfidence ==
  classifyLog.done /\ ~classifyLog.out.is_fiction =>
    LET out == classifyLog.out
        by_subject == classify_from_subjects(classifyLog.subjects)
        by_category == classify_from_categories(classifyLog.subjects)
    IN  IF SuppliedCode # << >>
        THEN /\ out.ddc = SuppliedCode
             /\ out.confidence = IF SuppliedByOCLC THEN 95 ELSE 85
        ELSE IF by_subject # << >>
        THEN out.ddc = by_subject /\ out.confidence = 60
        ELSE IF by_category # << >>
        THEN out.ddc = by_category /\ out.confidence = 50
        ELSE out.ddc = << >> /\ out.needs_review /\ out.confidence = 0

\* C20: whenever classify returns is_fiction = true, the confidence is at
\* least 0.6 and needs_review is false, whichever step gave the code and also
\* when there is no code.
C20_FictionConfidence ==
  classifyLog.done /\ classifyLog.out.is_fiction =>
    classifyLog.out.confidence >= 60 /\ ~classifyLog.out.needs_review

\* C20 witness: a record with no code at all, detected as fiction by a subject
\* ("novel"), returned with confidence 0.6 and not for review.
C20_Witness ==
  /\ classifyLog.done
  /\ classifyLog.out.is_fiction
  /\ classifyLog.out.ddc = << >>
  /\ classifyLog.out.confidence = 60
  /\ ~classifyLog.out.needs_review

\* C21: classify marks a record as fiction exactly when its code is in the
\* literature/fiction band or some subject contains a fiction indicator,
\* whatever the capitals; the genres of a fiction record are exactly the
\* genres of the keyword table with a keyword occurring in some subject; a
\* subject list containing "epic fantasy" is fiction with "Fantasy" among its
\* genres.
C21_FictionAndGenres ==
  classifyLog.done =>
    LET out == classifyLog.out
        subjects == classifyLog.subjects
        in_band == out.ddc # << >> /\ out.ddc[1] = "8" /\ out.ddc[3] \in {"0", "3"}
        indicated == \E i \in DOMAIN subjects : \E k \in DOMAIN subjects[i] :
                       subject_lower(subjects[i])[k] \in FictionIndicators
        expected == { g \in DOMAIN GENRE_KEYWORDS :
                        \E kw \in GENRE_KEYWORDS[g], i \in DOMAIN subjects :
                          occurs(subject_lower(subjects[i]), kw) }
    IN  /\ out.is_fiction <=> (in_band \/ indicated)
        /\ out.is_fiction =>
             /\ out.genres # NoGenres
             /\ { out.genres[k] : k \in DOMAIN out.genres } = expected
        /\ (\E i \in DOMAIN subjects : occurs(subjects[i], << "epic", " ", "fantasy" >>)) =>
             /\ out.is_fiction
             /\ \E k \in DOMAIN out.genres : out.genres[k] = "Fantasy"

\* C21 witness: the subject "epic fantasy" makes the record fiction with the
\* genre list ["Fantasy"].
C21_Witness ==
  /\ classifyLog.done
  /\ classifyLog.subjects = << << "epic", " ", "fantasy" >> >>
  /\ classifyLog.out.is_fiction
  /\ classifyLog.out.genres = << "Fantasy" >>

\* The ancestors of the source below the intake root that hold nothing but
\* the source and the ancestors below them: what the walk is to remove.
RECURSIVE EmptiedFrom(_, _)
EmptiedFrom(d, below) ==
  IF ~(Len(d) > Len(IntakeRoot) /\ is_relative_to(d, IntakeRoot)) THEN {}
  ELSE IF iterdir(cleanup.dirs0, cleanup.files0, d) \subseteq {below}
       THEN {d} \cup EmptiedFrom(parent(d), d)
       ELSE {}

\* C22: once the source is removed, cleanup_empty_parents removes the
\* ancestors of the source that are now empty, walking upward and stopping at
\* the first directory that is not empty (or at a removal that fails); it
\* never removes the intake root, a directory that is not strictly below the
\* intake root, or a directory that is not empty, and it touches nothing else.
C22_PrunesEmptyAncestors ==
  LET expected == EmptiedFrom(parent(cleanup.source), cleanup.source)
  IN  /\ cleanup.removed \subseteq expected
      /\ \A d \in cleanup.removed :
           /\ d # IntakeRoot
           /\ Len(d) > Len(IntakeRoot) /\ is_relative_to(d, IntakeRoot)
           /\ iterdir(cleanup.dirs, cleanup.files, d) = {}
      /\ cleanup.dirs = cleanup.dirs0 \ cleanup.removed
      /\ cleanup.files \in {cleanup.files0, cleanup.files0 \ {cleanup.source}}
      /\ cleanup.pc = "done" /\ ~cleanup.error => cleanup.removed = expected

\* C22 witness: the source was the only file below the intake root; both of
\* its parent directories are removed and the intake root, now empty, stays.
C22_Witness ==
  /\ cleanup.pc = "done"
  /\ ~cleanup.error
  /\ cleanup.removed = {IntakeRoot \o << "a" >>, IntakeRoot \o << "a", "b" >>}
  /\ IntakeRoot \in cleanup.dirs
  /\ iterdir(cleanup.dirs, cleanup.files, IntakeRoot) = {}

\* C23: two records of one batch that resolve to the same folder and file name
\* with different digests are filed at two distinct paths: no record starts its
\* move onto a target path that already holds the payload of the other record.
C23_CollisionResolved ==
  \A r1, r2 \in Recs :
    ~ (/\ r1 # r2
       /\ run.state = "running"
       /\ ~run.dry
       /\ {r1, r2} \subseteq Batch
       /\ tl[r1].title = tl[r2].title
       /\ checksum[r1] # checksum[r2]
       /\ pc[r1] = "begin"
       /\ active = r1
       /\ tl[r1].tpath # NoPath
       /\ tl[r1].tpath = tl[r2].tpath
       /\ FileAt(lib, tl[r1].tpath) = checksum[r2])

\* C24: across any sequence and interleaving of filings that resolve to one
\* Item, failing and concurrent ones included, the Item's cover image is
\* written at most once, and once the Item has a cover_path the file is not
\* written again.
C24_CoverStoredOnce ==
  \A it \in DOMAIN covers.writes :
    covers.writes[it] <= 1 /\ ~covers.clobbered[it]

\* The order of the formats: epub, pdf, mobi, then any other.
FormatOrder == << "epub", "pdf", "mobi" >>

FormatPlace(fmt) ==
  IF \E k \in DOMAIN FormatOrder : FormatOrder[k] = fmt
  THEN CHOOSE k \in DOMAIN FormatOrder : FormatOrder[k] = fmt
  ELSE Len(FormatOrder) + 1

\* a is a strictly better copy than b: more of title and authors present;
\* then the better format; then the shorter file name.
BetterCopy(a, b) ==
  \/ a.meta > b.meta
  \/ a.meta = b.meta /\ FormatPlace(a.format) < FormatPlace(b.format)
  \/ a.meta = b.meta /\ FormatPlace(a.format) = FormatPlace(b.format) /\ a.namelen < b.namelen

C26_MigratedThroughProcessing ==
  [][\A r \in Recs :
       (sess.status[r] # "migrated" /\ sess'.status[r] = "migrated")
       => sess.status[r] = "processing"]_vars

\* C27: when the last batch of a run is done, the statistics the run returns
\* agree with the catalogue: processed = total = migrated + needs_review +
\* failed + skipped, and migrated is the number of selected records whose
\* status has become migrated (duplicates and dry-run simulations not counted).
C27_StatsAgree ==
  (BatchDone /\ ~MoreBatches) =>
    LET stats == ProcessingStats(run.pending_files, result)
        sel == { run.pending_files[k] : k \in DOMAIN run.pending_files }
    IN  /\ stats.processed = stats.total
        /\ stats.total = stats.migrated + stats.needs_review + stats.failed + stats.skipped
        /\ stats.migrated = Cardinality({ r \in sel : sess.status[r] = "migrated" })

\* C28: the duplicate_of pointer of every row the scanner marked duplicate
\* refers to another row with the same digest that is not itself marked
\* duplicate: no chain duplicate -> duplicate, no row pointing at itself.
C28_DuplicateOfKeptCopy ==
  \A f \in manifest :
    (f.status = "duplicate" /\ f.duplicate_of_id # NoId)
    => \E b \in manifest :
         /\ b.id = f.duplicate_of_id
         /\ b.id # f.id
         /\ b.checksum_md5 = f.checksum_md5
         /\ b.status # "duplicate"

\* C29: a filing attempt that ended failed leaves the committed catalogue as
\* it was: an Item that was not committed before the attempt and that the
\* failed attempt resolved to is not committed afterwards, unless a File
\* filed by another attempt belongs to it.
C29_FailedLeavesNoRows ==
  [][\A r \in Recs :
       (/\ sess.status[r] = "failed"
        /\ tl[r].item # 0
        /\ \A it \in db.items : it.id # tl[r].item)
       => \A it \in db'.items :
            it.id = tl[r].item => \E f \in db'.files : f.item_id = it.id]_vars

\* The codes reached from a set of codes by following parent_code up to n times.
RECURSIVE AncestorCodes(_, _, _)
AncestorCodes(classes, codes, n) ==
  LET up == { k.parent_code : k \in { q \in classes : q.code \in codes /\ q.parent_code # NoCode } }
  IN  IF n = 0 THEN {} ELSE up \cup AncestorCodes(classes, up, n - 1)

\* C30: the Classification rows form a forest under parent_code: no row,
\* lazily created ones included, is its own parent or its own ancestor.
C30_ClassificationForest ==
  \A k \in db.classes :
    k.code \notin AncestorCodes(db.classes, {k.code}, Cardinality(db.classes))

====
